---- MODULE Spec2Model ----
(***************************************************************************)
(* A model of the spsock TCP/UDP reactor: the per-connection ring buffer   *)
(* (SPBuffer), the slab buffer pools (SPTcpBufferPool, SPUdpBufferPool),   *)
(* socket set-up (Listen, Bind) and the TCP reactor (acceptor, I/O loop,   *)
(* task staging, worker pool, deferred close list, shutdown).              *)
(*                                                                         *)
(* Each part has its own specification over its own group of variables;    *)
(* the variables of the other parts stay at their idle values.             *)
(***************************************************************************)
EXTENDS Integers, Sequences, FiniteSets, TLC

VARIABLES
    \* ---- ring buffer (SPBuffer) and its test harness ----
    ring,       \* [back, front, size, buffer]: the SPBuffer fields
    rsrc,       \* bytes of S the producer has not yet handed to write()
    rsent,      \* bytes of S that write() accepted so far
    rout,       \* concatenation of everything read() returned so far
    \* ---- buffer pool (SPTcpBufferPool / SPUdpBufferPool) ----
    pkind,      \* "tcp" or "udp": which pool class is exercised
    pcfg,       \* [alloc, minBlock]: BUFFER_POOL_PEER_ALLOC_NUM, BUFFER_POOL_MIN_BLOCK_NUM
    pfree,      \* free list per buffer type (head first)
    pcount,     \* rbSize / wbSize / bufferSize per buffer type
    pslabs,     \* sequence of slabs: [num, ref, frees]
    pout,       \* buffers handed out and not yet returned
    plast,      \* the last pool call and its result
    \* ---- socket set-up (SPSockTcp::Listen, SPSockUdp::Bind) ----
    listenfd,   \* SPSockTcp::listenfd (-1 when none)
    tcpStatus,  \* bit 0x1 of SPSockTcp::status: Listen() succeeded
    fds,        \* SPSockUdp::fds
    udpStatus,  \* bit 0x1 of SPSockUdp::status: Bind() done
    openFds,    \* descriptors currently open in the process
    boundFds,   \* open descriptors that are bound to the address
    nextFd,     \* counter from which fresh descriptors are numbered
    lastCall,   \* the last Listen/Bind call: its inputs and its result
    \* ---- TCP reactor (SPSockTcp::EventLoop and its threads) ----
    tcpConfig,  \* callbacks registered, watermarks, queue and ring sizes, clients
    connections,\* per connection id: its SOCKController, its epoll registration
                \* and the callbacks/closes it has seen
    cList,      \* the deferred close list (cList.connections)
    taskQueue,  \* the worker pool's BlockQueue: tasks pushed and not yet popped
    isStopped,  \* BlockQueue::isStopped
    released,   \* BlockQueue::release() has freed the queue's memory block
    utilTask,   \* the I/O loop's UtilTaskTcp: flag, back, front, size, tasks
    ioPc,       \* I/O loop thread: "wait" | "proc" | "exited"
    ioEvents,   \* events epoll_wait returned that the loop has not yet handled
    exitfd,     \* TRUE once ExitIOEventLoop wrote the loop's exit eventfd
    wPc,        \* worker thread: "idle" | "run" | "ee" | "waitpop" | "towait"
                \* | "blocked" | "exited"
    wTask,      \* the task the worker popped and is executing
    wPending,   \* the enableEvents call the worker is inside: [ret, mask]
    accPc,      \* acceptor thread (EventLoop): "loop" | "stopWait" | "notify"
                \* | "join" | "exitIO" | "joinIO" | "returned"
    exitFlag,   \* SPSockTcp::exitFlag (TRUE = keep running)
    exitSet,    \* SetExitFlag()/HandleExit() has been called
    stopCause,  \* why MainEventLoop returned: "none" | "exit" | "accept" | "poll"
    accepted,   \* connections accepted so far (the next id is accepted + 1)
    loopCount,  \* loopInfo[0].count: connections assigned to the I/O loop
    faults,     \* system-call failures injected so far
    delivered,  \* readiness reports epoll_wait has returned so far
    \* ---- one SOCKController used through its public calls ----
    ctl,        \* [conn, readBuf, writeBuf]: cached events and peerClosed, the rings
    ctlIn,      \* number of the next byte the peer sends (cyclic)
    ctlLast,    \* the last call: its name, arguments and result
    \* ---- one pass of IOEventLoop over the events of one epoll_wait ----
    pass,       \* the shared objects the pass works on (as Shared)
    passPend,   \* the returned events not handled yet
    passApp,    \* connections for which utilTask.append was called
    passEnq,    \* per connection: tasks pushed onto the worker queue
    passLast,   \* the last event handled: its inputs and the handler's result
    passPc,     \* "proc" while the pass runs, "done" after utilTask.reset()
    \* ---- connection table and close list, statement by statement ----
    tblConns,   \* connections: per descriptor its record, epoll state, open fd
    tblLoopInfo,\* loopInfo[l].count
    tblCList,   \* cList.connections
    tblMoved,   \* HandleCloseList's local list after std::move
    tblMtx,     \* holder of cList.mtx (0: free)
    tblAcc,     \* acceptor: [pc, fd, idx, moved, from]
    tblIo,      \* per I/O loop: [pc, fd, ev, raced]
    tblAccepts, \* connections accepted so far
    \* ---- CalculateOptimalThreadCounts ----
    calc,       \* [pc, hardware, num, ret, ioThreads, workerThreads]
    \* ---- the task queue (BlockQueue / TPBlockQueue) and its users ----
    bq,         \* [kind, nodes, freeListHead, dataListHead, dataListTail, size]
    bqProd,     \* per producer: [pc, head, count, sent]
    bqCons,     \* per consumer: [pc, head, tail, n, got]
    bqOut,      \* the elements in the order they were taken off the data list
    \* ---- UDP task staging (UtilTaskUdp) ----
    udp         \* [batch, tasks, back, front, size, queue, pc, next, freed,
                \*  dropped, stale]

ringVars == <<ring, rsrc, rsent, rout>>
poolVars == <<pkind, pcfg, pfree, pcount, pslabs, pout, plast>>
setupVars == <<listenfd, tcpStatus, fds, udpStatus, openFds, boundFds, nextFd, lastCall>>
tcpVars == <<tcpConfig, connections, cList, taskQueue, isStopped, released, utilTask,
             ioPc, ioEvents, exitfd, wPc, wTask, wPending, accPc, exitFlag, exitSet,
             stopCause, accepted, loopCount, faults, delivered>>
vars == <<ring, rsrc, rsent, rout, pkind, pcfg, pfree, pcount, pslabs, pout, plast,
          listenfd, tcpStatus, fds, udpStatus, openFds, boundFds, nextFd, lastCall,
          tcpConfig, connections, cList, taskQueue, isStopped, released, utilTask,
          ioPc, ioEvents, exitfd, wPc, wTask, wPending, accPc, exitFlag, exitSet,
          stopCause, accepted, loopCount, faults, delivered,
          ctl, ctlIn, ctlLast,
          pass, passPend, passApp, passEnq, passLast, passPc,
          tblConns, tblLoopInfo, tblCList, tblMoved, tblMtx, tblAcc, tblIo,
          tblAccepts, calc, bq, bqProd, bqCons, bqOut, udp>>
ctlVars == <<ctl, ctlIn, ctlLast>>
passVars == <<pass, passPend, passApp, passEnq, passLast, passPc>>
tblVars == <<tblConns, tblLoopInfo, tblCList, tblMoved, tblMtx, tblAcc, tblIo,
             tblAccepts>>
calcVars == <<calc>>
\* The groups of the specifications that follow the connection table.
bqVars == <<bq, bqProd, bqCons, bqOut>>
udpVars == <<udp>>
restVars == <<calcVars, bqVars, udpVars>>

notRingVars == <<poolVars, setupVars, tcpVars, ctlVars, passVars, tblVars, restVars>>
notPoolVars == <<ringVars, setupVars, tcpVars, ctlVars, passVars, tblVars, restVars>>
notSetupVars == <<ringVars, poolVars, tcpVars, ctlVars, passVars, tblVars, restVars>>
notTcpVars == <<ringVars, poolVars, setupVars, ctlVars, passVars, tblVars, restVars>>
notCtlVars == <<ringVars, poolVars, setupVars, tcpVars, passVars, tblVars, restVars>>
notPassVars == <<ringVars, poolVars, setupVars, tcpVars, ctlVars, tblVars, restVars>>
notTblVars == <<ringVars, poolVars, setupVars, tcpVars, ctlVars, passVars, restVars>>
notCalcVars == <<ringVars, poolVars, setupVars, tcpVars, ctlVars, passVars, tblVars, bqVars, udpVars>>
notBqVars == <<ringVars, poolVars, setupVars, tcpVars, ctlVars, passVars, tblVars, calcVars, udpVars>>
notUdpVars == <<ringVars, poolVars, setupVars, tcpVars, ctlVars, passVars, tblVars, calcVars, bqVars>>

Min(a, b) == IF a < b THEN a ELSE b

(***************************************************************************)
(* Ring buffer                                                             *)
(***************************************************************************)

\* Capacity of the backing buffer (READ_BSIZE / WRITE_BSIZE scaled down).
RingCap == 3
\* Longest byte string S pushed through the ring.
MaxStrLen == 6
\* Largest len argument handed to read() / write().
MaxChunk == 4

Bytes == {0, 1}

bsize == RingCap

RECURSIVE SeqsUpTo(_)
SeqsUpTo(n) == IF n = 0 THEN {<<>>}
               ELSE LET S == SeqsUpTo(n - 1)
                    IN S \cup {Append(s, b) : s \in {t \in S : Len(t) = n - 1}, b \in Bytes}

\* SPBuffer::SPBuffer: indices and size zero; the backing memory comes from the
\* pool uninitialised, so its content is arbitrary.
RingInit(mem) == [back |-> 0, front |-> 0, size |-> 0, buffer |-> mem]

bytesRead(r) == r.size

bytesWrite(r) == bsize - r.size

\* memcpy(buffer + at, data, Len(data))
MemPut(mem, at, data) ==
    [i \in DOMAIN mem |-> IF i >= at /\ i < at + Len(data) THEN data[i - at + 1] ELSE mem[i]]

\* memcpy(dst, buffer + at, n)
MemGet(mem, at, n) == [i \in 1..n |-> mem[at + i - 1]]

\* A write() that advances front by the first chunk only when the copy wraps.
SPBuffer_write_short(r, data) ==
    LET len == Len(data) IN
    IF len = 0 \/ bytesWrite(r) = 0 THEN [ring |-> r, n |-> 0]
    ELSE LET bytesToWrite == IF len > bytesWrite(r) THEN bytesWrite(r) ELSE len
             firstChunk == IF r.front + bytesToWrite > bsize THEN bsize - r.front ELSE bytesToWrite
             m1 == MemPut(r.buffer, r.front, SubSeq(data, 1, firstChunk))
             m2 == IF firstChunk < bytesToWrite
                   THEN MemPut(m1, 0, SubSeq(data, firstChunk + 1, bytesToWrite))
                   ELSE m1
         IN [ring |-> [r EXCEPT !.buffer = m2,
                                !.front = (r.front + firstChunk) % bsize,
                                !.size = r.size + bytesToWrite],
             n |-> bytesToWrite]

\* SPBuffer::write: copy min(len, free) bytes in at front, in two chunks on wrap.
SPBuffer_write(r, data) ==
    LET len == Len(data) IN
    IF len = 0 \/ bytesWrite(r) = 0 THEN [ring |-> r, n |-> 0]
    ELSE LET bytesToWrite == IF len > bytesWrite(r) THEN bytesWrite(r) ELSE len
             firstChunk == IF r.front + bytesToWrite > bsize THEN bsize - r.front ELSE bytesToWrite
             m1 == MemPut(r.buffer, r.front, SubSeq(data, 1, firstChunk))
             m2 == IF firstChunk < bytesToWrite
                   THEN MemPut(m1, 0, SubSeq(data, firstChunk + 1, bytesToWrite))
                   ELSE m1
         IN [ring |-> [r EXCEPT !.buffer = m2,
                                !.front = (r.front + bytesToWrite) % bsize,
                                !.size = r.size + bytesToWrite],
             n |-> bytesToWrite]

\* SPBuffer::peek: copy min(len, size) bytes out from back without consuming.
SPBuffer_peek(r, len) ==
    IF len = 0 \/ r.size = 0 THEN <<>>
    ELSE LET bytesToRead == IF len > r.size THEN r.size ELSE len
             firstChunk == IF r.back + bytesToRead > bsize THEN bsize - r.back ELSE bytesToRead
         IN MemGet(r.buffer, r.back, firstChunk)
            \o (IF firstChunk < bytesToRead
                THEN MemGet(r.buffer, 0, bytesToRead - firstChunk) ELSE <<>>)

\* SPBuffer::read: as peek, then consume; indices reset when drained.
SPBuffer_read(r, len) ==
    IF len = 0 \/ r.size = 0 THEN [ring |-> r, data |-> <<>>]
    ELSE LET bytesToRead == IF len > r.size THEN r.size ELSE len
             got == SPBuffer_peek(r, bytesToRead)
             size2 == r.size - bytesToRead
         IN [ring |-> IF size2 = 0
                      THEN [r EXCEPT !.size = 0, !.front = 0, !.back = 0]
                      ELSE [r EXCEPT !.size = size2, !.back = (r.back + bytesToRead) % bsize],
             data |-> got]

InitRing ==
    /\ ring \in {RingInit(mem) : mem \in [0..(bsize - 1) -> Bytes]}
    /\ rsrc \in SeqsUpTo(MaxStrLen)
    /\ rsent = <<>>
    /\ rout = <<>>

IdleRing ==
    /\ ring = RingInit([i \in 0..(bsize - 1) |-> 0])
    /\ rsrc = <<>>
    /\ rsent = <<>>
    /\ rout = <<>>

\* The producer hands the next len bytes of S to write(); what write() did not
\* take stays to be offered again.
RingWrite(len) ==
    /\ len <= Len(rsrc)
    /\ LET res == SPBuffer_write(ring, SubSeq(rsrc, 1, len)) IN
        /\ ring' = res.ring
        /\ rsent' = rsent \o SubSeq(rsrc, 1, res.n)
        /\ rsrc' = SubSeq(rsrc, res.n + 1, Len(rsrc))
    /\ UNCHANGED rout
    /\ UNCHANGED notRingVars

\* The consumer calls read() with a buffer of len bytes.
RingRead(len) ==
    /\ LET res == SPBuffer_read(ring, len) IN
        /\ ring' = res.ring
        /\ rout' = rout \o res.data
    /\ UNCHANGED <<rsrc, rsent>>
    /\ UNCHANGED notRingVars

NextRing ==
    \/ \E len \in 1..MaxChunk : RingWrite(len)
    \/ \E len \in 1..MaxChunk : RingRead(len)

(***************************************************************************)
(* Buffer pool                                                             *)
(***************************************************************************)

\* Most slabs one run allocates; past it malloc fails.
MaxSlabs == 2
\* The pool configurations tried: BUFFER_POOL_PEER_ALLOC_NUM (alloc) and
\* BUFFER_POOL_MIN_BLOCK_NUM (minBlock), which Config() requires to be at
\* least alloc.
PoolConfigs == {[alloc |-> 1, minBlock |-> 1],
                [alloc |-> 2, minBlock |-> 2],
                [alloc |-> 2, minBlock |-> 3]}
\* Most buffers the callers hold at once.
MaxOut == 2

\* The free lists of a pool: read and write buffers for TCP, one list for UDP.
PoolTypes(kind) == IF kind = "tcp" THEN {"r", "w"} ELSE {"u"}

\* The NULL a failed GetBuffer returns.
NullBuf == [slab |-> 0, type |-> "null", idx |-> 0]

\* Alloc(): the slab sizes tried in turn, num, num/2, ..., 1.
RECURSIVE AllocNums(_)
AllocNums(num) == IF num <= 0 THEN <<>> ELSE <<num>> \o AllocNums(num \div 2)

\* The chain of num fresh nodes of one type that tryAlloc links in front of a list.
SlabNodes(s, t, num) == [i \in 1..num |-> [slab |-> s, type |-> t, idx |-> i]]

\* tryAlloc(num) after a successful malloc: the header refcount counts every
\* buffer of the slab, every list gets num nodes in front, every counter grows.
tryAlloc(st, kind, num) ==
    LET s == Len(st.slabs) + 1 IN
    [slabs |-> Append(st.slabs, [num |-> num,
                                  ref |-> num * Cardinality(PoolTypes(kind)),
                                  frees |-> 0]),
     free  |-> [t \in DOMAIN st.free |-> SlabNodes(s, t, num) \o st.free[t]],
     count |-> [t \in DOMAIN st.count |-> st.count[t] + num]]

\* Alloc() when the first k mallocs fail: the (k+1)-th size is allocated, or
\* nothing is when every attempt failed.
Alloc(st, kind, alloc, k) ==
    LET nums == AllocNums(alloc) IN
    IF k >= Len(nums) THEN [ok |-> FALSE, st |-> st]
    ELSE [ok |-> TRUE, st |-> tryAlloc(st, kind, nums[k + 1])]

\* A GetBuffer that also takes the buffer's share of the slab refcount.
GetBufferInner_decref(st, kind, alloc, t, k) ==
    LET a == IF st.free[t] = <<>> THEN Alloc(st, kind, alloc, k) ELSE [ok |-> TRUE, st |-> st] IN
    IF ~a.ok THEN [buf |-> NullBuf, st |-> st]
    ELSE LET node == Head(a.st.free[t]) IN
         [buf |-> node,
          st  |-> [slabs |-> [a.st.slabs EXCEPT ![node.slab].ref = @ - 1],
                   free  |-> [a.st.free EXCEPT ![t] = Tail(@)],
                   count |-> [a.st.count EXCEPT ![t] = @ - 1]]]

\* GetReadBufferInner / GetWriteBufferInner / SPUdpBufferPool::GetBuffer:
\* allocate a slab when the list is empty, then pop the head of the list.
GetBufferInner(st, kind, alloc, t, k) ==
    LET a == IF st.free[t] = <<>> THEN Alloc(st, kind, alloc, k) ELSE [ok |-> TRUE, st |-> st] IN
    IF ~a.ok THEN [buf |-> NullBuf, st |-> st]
    ELSE LET node == Head(a.st.free[t]) IN
         [buf |-> node,
          st  |-> [a.st EXCEPT !.free[t] = Tail(@), !.count[t] = @ - 1]]

\* A FreeBuffer that drops the buffer without taking it off the refcount.
FreeBufferInner_noDec(st, minBlock, buf) ==
    LET t == buf.type IN
    IF st.count[t] >= minBlock
    THEN st
    ELSE [st EXCEPT !.free[t] = <<buf>> \o @, !.count[t] = @ + 1]

\* A FreeBuffer that frees the slab one reference early.
FreeBufferInner_early(st, minBlock, buf) ==
    LET t == buf.type IN
    IF st.count[t] >= minBlock
    THEN LET ref2 == st.slabs[buf.slab].ref - 1 IN
         [st EXCEPT !.slabs[buf.slab].ref = ref2,
                    !.slabs[buf.slab].frees = IF ref2 <= 1 THEN @ + 1 ELSE @]
    ELSE [st EXCEPT !.free[t] = <<buf>> \o @, !.count[t] = @ + 1]

\* FreeReadBuffferInner / FreeWriteBufferInner / SPUdpBufferPool::FreeBuffer:
\* with enough buffers retained the buffer is dropped and the slab refcount
\* falls (the slab is freed at zero); otherwise the buffer is pushed back.
FreeBufferInner(st, minBlock, buf) ==
    LET t == buf.type IN
    IF st.count[t] >= minBlock
    THEN LET ref2 == st.slabs[buf.slab].ref - 1 IN
         [st EXCEPT !.slabs[buf.slab].ref = ref2,
                    !.slabs[buf.slab].frees = IF ref2 = 0 THEN @ + 1 ELSE @]
    ELSE [st EXCEPT !.free[t] = <<buf>> \o @, !.count[t] = @ + 1]

\* One while loop of releaseAllBlocks: every node of the list gives up its
\* share of its slab's refcount, and the slab is freed when that reaches zero.
RECURSIVE ReleaseList(_, _)
ReleaseList(slabs, list) ==
    IF list = <<>> THEN slabs
    ELSE LET s == Head(list).slab
             ref2 == slabs[s].ref - 1
         IN  ReleaseList([slabs EXCEPT ![s].ref = ref2,
                                       ![s].frees = IF ref2 = 0 THEN @ + 1 ELSE @],
                         Tail(list))

\* A releaseAllBlocks that walks the first free list only.
releaseAllBlocks_firstList(st, kind) ==
    IF kind = "tcp" THEN ReleaseList(st.slabs, st.free["r"])
    ELSE ReleaseList(st.slabs, st.free["u"])

\* releaseAllBlocks: the read list, then the write list (TCP); the one list (UDP).
releaseAllBlocks(st, kind) ==
    IF kind = "tcp"
    THEN ReleaseList(ReleaseList(st.slabs, st.free["r"]), st.free["w"])
    ELSE ReleaseList(st.slabs, st.free["u"])

\* reset(): releaseAllBlocks, then the counters and list heads are cleared.
reset(st, kind) ==
    [slabs |-> releaseAllBlocks(st, kind),
     free  |-> [t \in DOMAIN st.free |-> <<>>],
     count |-> [t \in DOMAIN st.count |-> 0]]

PoolState == [slabs |-> pslabs, free |-> pfree, count |-> pcount]

InitPool ==
    /\ pkind \in {"tcp", "udp"}
    /\ pcfg \in PoolConfigs
    /\ pfree = [t \in PoolTypes(pkind) |-> <<>>]
    /\ pcount = [t \in PoolTypes(pkind) |-> 0]
    /\ pslabs = <<>>
    /\ pout = {}
    /\ plast = [op |-> "none", buf |-> NullBuf, freed |-> 0]

IdlePool ==
    /\ pkind = "udp"
    /\ pcfg = [alloc |-> 1, minBlock |-> 1]
    /\ pfree = [t \in PoolTypes("udp") |-> <<>>]
    /\ pcount = [t \in PoolTypes("udp") |-> 0]
    /\ pslabs = <<>>
    /\ pout = {}
    /\ plast = [op |-> "none", buf |-> NullBuf, freed |-> 0]

\* GetBuffer(type); k is the number of mallocs that fail should a slab be
\* needed (every one fails once MaxSlabs slabs were allocated).
PoolGet(t, k) ==
    /\ Cardinality(pout) < MaxOut
    /\ Len(pslabs) >= MaxSlabs => k = Len(AllocNums(pcfg.alloc))
    /\ LET r == GetBufferInner(PoolState, pkind, pcfg.alloc, t, k) IN
        /\ pslabs' = r.st.slabs
        /\ pfree' = r.st.free
        /\ pcount' = r.st.count
        /\ pout' = IF r.buf = NullBuf THEN pout ELSE pout \cup {r.buf}
        /\ plast' = [op |-> "get", buf |-> r.buf, freed |-> 0]
    /\ UNCHANGED <<pkind, pcfg>>
    /\ UNCHANGED notPoolVars

\* FreeBuffer(buf, type) of a buffer the caller holds.
PoolFree(buf) ==
    /\ buf \in pout
    /\ LET st == FreeBufferInner(PoolState, pcfg.minBlock, buf) IN
        /\ pslabs' = st.slabs
        /\ pfree' = st.free
        /\ pcount' = st.count
    /\ pout' = pout \ {buf}
    /\ plast' = [op |-> "free", buf |-> buf, freed |-> 0]
    /\ UNCHANGED <<pkind, pcfg>>
    /\ UNCHANGED notPoolVars

\* reset(), which the caller may use once every buffer has been returned
\* (Release() calls it after the instance is deleted).
PoolReset ==
    /\ pout = {}
    /\ LET st == reset(PoolState, pkind) IN
        /\ pslabs' = st.slabs
        /\ pfree' = st.free
        /\ pcount' = st.count
        /\ plast' = [op |-> "reset", buf |-> NullBuf,
                     freed |-> Cardinality({s \in 1..Len(pslabs) :
                                   st.slabs[s].frees > pslabs[s].frees})]
    /\ UNCHANGED <<pkind, pcfg, pout>>
    /\ UNCHANGED notPoolVars

NextPool ==
    \/ \E t \in PoolTypes(pkind), k \in 0..Len(AllocNums(pcfg.alloc)) : PoolGet(t, k)
    \/ \E buf \in pout : PoolFree(buf)
    \/ PoolReset


(***************************************************************************)
(* Socket set-up: SPSockTcp::Listen and SPSockUdp::Bind                    *)
(***************************************************************************)

\* Most calls of Listen/Bind in one run (each failed call may be retried).
MaxCalls == 3
\* Largest std::thread::hardware_concurrency() tried (0 = unknown).
MaxHardware == 3

\* The system calls of Listen, in program order.
ListenSteps == <<"socket", "reuse", "bind", "listen">>
\* The system calls Bind makes for each of its sockets, in program order.
BindSteps == <<"socket", "reuseaddr", "reuseport", "rcvbuf", "rcvtimeo", "bind">>

NoCall == [op |-> "none", ret |-> FALSE, addrOk |-> TRUE, hardware |-> 0,
           failSock |-> 0, failStep |-> "none"]

\* SPSockTcp::Listen(port, ip).  addrOk: SOCKADDR::INIT accepted the address;
\* failStep: the system call that fails, or "none".
Listen(addrOk, failStep) ==
    /\ lastCall.op \in {"none", "Listen"}
    /\ nextFd <= MaxCalls
    /\ lastCall' = [op |-> "Listen", addrOk |-> addrOk, hardware |-> 1,
                    failSock |-> IF failStep = "none" THEN 0 ELSE 1,
                    failStep |-> failStep,
                    ret |-> /\ ~tcpStatus
                            /\ addrOk
                            /\ failStep = "none"]
    /\ IF tcpStatus \/ ~addrOk
       THEN UNCHANGED <<listenfd, tcpStatus, openFds, boundFds, nextFd>>
       ELSE IF failStep = "socket"
       THEN /\ listenfd' = -1
            /\ UNCHANGED <<tcpStatus, openFds, boundFds, nextFd>>
       ELSE IF failStep \in {"reuse", "bind", "listen"}
       THEN \* close(listenfd); listenfd = -1; return false
            /\ listenfd' = -1
            /\ nextFd' = nextFd + 1
            /\ UNCHANGED <<tcpStatus, openFds, boundFds>>
       ELSE /\ listenfd' = nextFd
            /\ nextFd' = nextFd + 1
            /\ openFds' = openFds \cup {nextFd}
            /\ boundFds' = boundFds \cup {nextFd}
            /\ tcpStatus' = TRUE
    /\ UNCHANGED <<fds, udpStatus>>
    /\ UNCHANGED notSetupVars

\* The sockets the loop of Bind pushed onto fds before it stopped: all of
\* them when nothing fails, those before the failing one otherwise.
BindPushed(hardware, failSock) ==
    IF failSock = 0 THEN hardware ELSE failSock - 1

\* SPSockUdp::Bind(port, ip).  hardware: hardware_concurrency(); failSock:
\* the socket (1..hardware) one of whose system calls fails, 0 for none;
\* failStep: that system call.
Bind(addrOk, hardware, failSock, failStep) ==
    /\ lastCall.op \in {"none", "Bind"}
    /\ nextFd <= MaxCalls
    /\ lastCall' = [op |-> "Bind", addrOk |-> addrOk, hardware |-> hardware,
                    failSock |-> failSock, failStep |-> failStep,
                    ret |-> /\ ~udpStatus
                            /\ addrOk
                            /\ hardware # 0]
    /\ IF udpStatus \/ ~addrOk \/ hardware = 0
       THEN UNCHANGED <<fds, udpStatus, openFds, boundFds, nextFd>>
       ELSE LET pushed == BindPushed(hardware, failSock)
                new == [i \in 1..pushed |-> nextFd * (MaxHardware + 1) + i]
                all == fds \o new
            IN  \* fds.size() != hardware: close and clear what was opened
                /\ IF Len(all) # hardware
                   THEN /\ fds' = <<>>
                        /\ openFds' = openFds \ {all[i] : i \in 1..Len(all)}
                        /\ boundFds' = boundFds \ {all[i] : i \in 1..Len(all)}
                   ELSE /\ fds' = all
                        /\ openFds' = openFds \cup {new[i] : i \in 1..pushed}
                        /\ boundFds' = boundFds \cup {new[i] : i \in 1..pushed}
                /\ nextFd' = nextFd + 1
                \* status |= 0x1; return true
                /\ udpStatus' = TRUE
    /\ UNCHANGED <<listenfd, tcpStatus>>
    /\ UNCHANGED notSetupVars

InitSetup ==
    /\ listenfd = -1
    /\ tcpStatus = FALSE
    /\ fds = <<>>
    /\ udpStatus = FALSE
    /\ openFds = {}
    /\ boundFds = {}
    /\ nextFd = 1
    /\ lastCall = NoCall

IdleSetup == InitSetup

ListenCall ==
    \E addrOk \in BOOLEAN, i \in 0..Len(ListenSteps) :
        Listen(addrOk, IF i = 0 THEN "none" ELSE ListenSteps[i])

BindCall ==
    \E addrOk \in BOOLEAN, hardware \in 0..MaxHardware :
        \E failSock \in 0..hardware, i \in 1..Len(BindSteps) :
            Bind(addrOk, hardware, failSock,
                 IF failSock = 0 THEN "none" ELSE BindSteps[i])

NextSetup ==
    \/ ListenCall
    \/ BindCall

(***************************************************************************)
(* TCP reactor                                                             *)
(***************************************************************************)

\* Most clients that connect in one run.
MaxClients == 3
\* markGlobal.writeMark value meaning "dispatch on any write readiness":
\* 0xffffffff, the all-ones unsigned int, held here as -1.
WriteMarkMax == -1
\* HandleCloseList moves the list out of the lock above this many entries.
CloseListThreshold == 10

\* Most readiness reports epoll_wait returns in one run.
MaxEvents == 4
\* The close-callback and close(fd) counters of a connection stop counting
\* here, and the loop's connection count stops falling at -1.
MaxCount == 2

Conns == 1..MaxClients
Masks == SUBSET {"r", "w"}

\* The configurations tried.  Program configuration: rdp/wtp: read/write
\* callback registered; readMark/writeMark: markGlobal; batch:
\* THREADPOOL_BATCH_SIZE_SUBMIT; qlen: THREADPOOL_QUEUE_LENGTH; rcap/wcap:
\* READ_BSIZE/WRITE_BSIZE; defEvent: EPOLL_DEFAULT_EVENT.  Environment:
\* clients: how many clients connect; faults: how many system calls
\* (epoll_ctl, recv, send, accept, poll) fail; halfClose: peers shut down
\* their sending side; exits: the application sets the exit flag; cbMasks:
\* the masks callbacks pass to enableEvents; cbKeeps: callbacks may leave
\* bytes in the read ring; events: how many readiness reports the kernel
\* makes.  hardware_concurrency() <= 2, so
\* CalculateOptimalThreadCounts gives one I/O loop and one worker.
TcpConfigs ==
    { [name |-> "single", rdp |-> TRUE, wtp |-> FALSE, readMark |-> 0,
       writeMark |-> WriteMarkMax, batch |-> 1, qlen |-> 1, rcap |-> 1,
       wcap |-> 0, defEvent |-> {"r"}, clients |-> MaxClients, faults |-> 0,
       halfClose |-> FALSE, exits |-> FALSE, cbMasks |-> {{"r"}},
       cbKeeps |-> FALSE, events |-> MaxEvents],
      [name |-> "batched", rdp |-> TRUE, wtp |-> FALSE, readMark |-> 0,
       writeMark |-> WriteMarkMax, batch |-> 2, qlen |-> 2, rcap |-> 1,
       wcap |-> 0, defEvent |-> {"r"}, clients |-> MaxClients - 1, faults |-> 0,
       halfClose |-> FALSE, exits |-> FALSE, cbMasks |-> {{"r"}},
       cbKeeps |-> FALSE, events |-> MaxEvents],
      [name |-> "marks", rdp |-> TRUE, wtp |-> TRUE, readMark |-> 2,
       writeMark |-> 1, batch |-> 1, qlen |-> 1, rcap |-> 2,
       wcap |-> 2, defEvent |-> {"r", "w"}, clients |-> 1, faults |-> 1,
       halfClose |-> TRUE, exits |-> TRUE, cbMasks |-> Masks,
       cbKeeps |-> TRUE, events |-> MaxEvents],
      [name |-> "shutdown", rdp |-> TRUE, wtp |-> FALSE, readMark |-> 0,
       writeMark |-> WriteMarkMax, batch |-> 1, qlen |-> 1, rcap |-> 1,
       wcap |-> 0, defEvent |-> {"r"}, clients |-> MaxClients - 1, faults |-> 1,
       halfClose |-> FALSE, exits |-> TRUE, cbMasks |-> {{"r"}},
       cbKeeps |-> FALSE, events |-> MaxEvents],
      [name |-> "writeonly", rdp |-> FALSE, wtp |-> TRUE, readMark |-> 0,
       writeMark |-> WriteMarkMax, batch |-> 1, qlen |-> 1, rcap |-> 1,
       wcap |-> 1, defEvent |-> {"r", "w"}, clients |-> 1, faults |-> 1,
       halfClose |-> FALSE, exits |-> TRUE, cbMasks |-> {{"w"}},
       cbKeeps |-> FALSE, events |-> MaxEvents] }

NoTask == [ctx |-> 0, proc |-> "none"]

\* A connection id that was never accepted.
NoConn == [st |-> "none", reg |-> FALSE, armed |-> FALSE, kmask |-> {},
           events |-> {}, peerClosed |-> FALSE, rsize |-> 0, wsize |-> 0,
           connectCb |-> 0, closeCb |-> 0, fdClose |-> 0]

\* What one handler works on: the shared objects it can change.
Shared == [connections |-> connections, cList |-> cList, taskQueue |-> taskQueue,
           utilTask |-> utilTask, wPc |-> wPc, count |-> loopCount]

\* SPSockTcp::EnableEvent: epoll_ctl(EPOLL_CTL_MOD).  It fails when the fd is
\* not registered (deleted, closed) or when the kernel refuses (ok = FALSE).
EnableEvent(t, c, mask, ok) ==
    LET ret == ok /\ t.connections[c].reg
    IN  [t |-> IF ret
               THEN [t EXCEPT !.connections[c].armed = TRUE,
                              !.connections[c].kmask = mask]
               ELSE t,
         ret |-> ret]

\* An enableEvents that leaves the cached mask alone when epoll_ctl fails.
enableEvents_keep(t, c, mask, ok) ==
    LET r == EnableEvent(t, c, mask, ok)
    IN  [t |-> IF r.ret THEN [r.t EXCEPT !.connections[c].events = mask] ELSE r.t,
         ret |-> r.ret]

\* SOCKController::enableEvents as one step (called on the I/O loop thread).
enableEvents(t, c, mask, ok) ==
    LET r == EnableEvent(t, c, mask, ok)
    IN  [t |-> [r.t EXCEPT !.connections[c].events = IF r.ret THEN mask ELSE {}],
         ret |-> r.ret]

\* The value a read of controller->events yields: the stored mask, or, when
\* the worker is inside enableEvents for the same connection and writing it
\* at the same time (inp.race), the value inp.seen.
ReadEvents(t, c, inp) ==
    IF inp.race /\ t.wPc = "ee" /\ wTask.ctx = c
    THEN inp.seen
    ELSE t.connections[c].events

\* SOCKController::renableEvents
renableEvents(t, c, inp) ==
    LET r == EnableEvent(t, c, ReadEvents(t, c, inp), inp.ok)
    IN  [t |-> IF r.ret THEN r.t ELSE [r.t EXCEPT !.connections[c].events = {}],
         ret |-> r.ret]

\* An ActiveClose that pushes onto the close list without EPOLL_CTL_DEL.
ActiveClose_noDel(t, c) == [t EXCEPT !.cList = Append(@, c)]

\* SPSockTcp::ActiveClose: EPOLL_CTL_DEL, then push onto the close list.
ActiveClose(t, c) ==
    [t EXCEPT !.connections[c].reg = FALSE,
              !.connections[c].armed = FALSE,
              !.connections[c].kmask = {},
              !.cList = Append(@, c)]

\* SPDefered::REnableFunc (renableProc)
REnableFunc(t, c, inp) ==
    LET r == renableEvents(t, c, inp)
    IN  IF r.ret THEN r.t ELSE ActiveClose(r.t, c)

\* notify_one on notEmptyCond: a worker blocked in wait_pop re-checks.
NotifyWorker(t) ==
    IF t.wPc = "blocked" THEN [t EXCEPT !.wPc = "waitpop"] ELSE t

\* BlockQueue::pushBulk / push: as many of the tasks as there are free nodes.
\* After release() the nodes are freed memory: the push writes into it and
\* reports success or failure (inp.uaf), and the tasks are never run.
pushBulk(t, tasks, inp) ==
    IF released
    THEN [t |-> t, n |-> IF inp.uaf THEN Len(tasks) ELSE 0]
    ELSE LET n == Min(Len(tasks), tcpConfig.qlen - Len(t.taskQueue))
         IN  [t |-> IF n = 0 THEN t
                    ELSE NotifyWorker([t EXCEPT !.taskQueue = @ \o SubSeq(tasks, 1, n)]),
              n |-> n]

\* UtilTaskTcp_Single::append
UtilTaskTcp_Single_append(t, c, proc, inp) ==
    LET t1 == IF ~t.utilTask.flag THEN REnableFunc(t, c, inp) ELSE t
        p == pushBulk(t1, <<[ctx |-> c, proc |-> proc]>>, inp)
    IN  IF p.n = 1 THEN p.t
        ELSE REnableFunc([p.t EXCEPT !.utilTask.flag = FALSE], c, inp)

\* The staged tasks of the batch buffer, oldest first.
Staged(u) ==
    [i \in 1..u.size |-> u.tasks[(u.back + i - 1) % tcpConfig.batch]]

\* renableProc for each of a sequence of tasks, in order.
RECURSIVE REnableAll(_, _, _)
REnableAll(t, tasks, inp) ==
    IF tasks = <<>> THEN t
    ELSE REnableAll(REnableFunc(t, Head(tasks).ctx, inp), Tail(tasks), inp)

\* UtilTaskTcp_Multipe::commit.  Slots it has consumed are reset to NoTask:
\* the code leaves the old task there, but never reads it again.
RECURSIVE commit(_, _)
commit(t, inp) ==
    LET u == t.utilTask
        B == tcpConfig.batch
        num == Min(B - u.back, u.size)
        chunk == SubSeq(Staged(u), 1, num)
        p == pushBulk(t, chunk, inp)
        cleared == [i \in 0..(B - 1) |-> NoTask]
    IN  IF u.size = 0 THEN t
        ELSE IF p.n # num
        THEN \* only the rest of this chunk is re-armed
             LET t1 == REnableAll(p.t, SubSeq(chunk, p.n + 1, num), inp)
             IN  [t1 EXCEPT !.utilTask = [flag |-> FALSE, back |-> u.front,
                                          front |-> u.front, size |-> 0,
                                          tasks |-> cleared]]
        ELSE LET t1 == [p.t EXCEPT !.utilTask.size = u.size - num,
                                   !.utilTask.back = (u.back + num) % B,
                                   !.utilTask.tasks =
                                       [i \in 0..(B - 1) |->
                                           IF \E k \in 0..(num - 1) : i = (u.back + k) % B
                                           THEN NoTask ELSE u.tasks[i]]]
             IN  IF t1.utilTask.size > 0 THEN commit(t1, inp) ELSE t1

\* UtilTaskTcp_Multipe::append
UtilTaskTcp_Multipe_append(t, c, proc, inp) ==
    LET t1 == IF ~t.utilTask.flag THEN REnableFunc(t, c, inp) ELSE t
        u == t1.utilTask
        t2 == [t1 EXCEPT !.utilTask.tasks[u.front] = [ctx |-> c, proc |-> proc],
                         !.utilTask.front = (u.front + 1) % tcpConfig.batch,
                         !.utilTask.size = u.size + 1]
    IN  IF t2.utilTask.size = tcpConfig.batch THEN commit(t2, inp) ELSE t2

\* UtilTaskTcp::append
UtilTaskTcp_append(t, c, proc, inp) ==
    IF tcpConfig.batch = 1
    THEN UtilTaskTcp_Single_append(t, c, proc, inp)
    ELSE UtilTaskTcp_Multipe_append(t, c, proc, inp)

\* UtilTaskTcp::reset
UtilTaskTcp_reset(t, inp) ==
    IF tcpConfig.batch = 1
    THEN [t EXCEPT !.utilTask.flag = TRUE]
    ELSE [commit(t, inp) EXCEPT !.utilTask.flag = TRUE]

\* SOCKController::readSocket: inp.n bytes arrive (at most the free space),
\* and recv ends with EAGAIN/0 (inp.rdok) or with an error.
readSocket(t, c, inp) ==
    [t |-> [t EXCEPT !.connections[c].rsize =
                        Min(tcpConfig.rcap, @ + inp.n)],
     ret |-> inp.rdok \/ t.connections[c].rsize = tcpConfig.rcap]

\* SOCKController::commitWrite: send takes inp.drain of the buffered bytes;
\* -1 on a send error (inp.wrok = FALSE), else the bytes still buffered.
commitWrite(t, c, inp) ==
    LET left == t.connections[c].wsize - Min(t.connections[c].wsize, inp.drain)
    IN  [t |-> [t EXCEPT !.connections[c].wsize = left],
         ret |-> IF left > 0 /\ ~inp.wrok THEN -1 ELSE left]

\* SPSockTcp::HandleRead.  app tells whether utilTask->append was called.
HandleRead(t, c, inp) ==
    IF tcpConfig.rdp
    THEN LET rd == readSocket(t, c, inp)
             k == rd.t.connections[c]
             re == renableEvents(rd.t, c, inp)
         IN  IF ~rd.ret THEN [t |-> rd.t, ret |-> FALSE, app |-> FALSE]
             ELSE IF k.peerClosed /\ k.rsize = 0
             THEN [t |-> rd.t, ret |-> FALSE, app |-> FALSE]
             ELSE IF tcpConfig.readMark = 0
             THEN [t |-> UtilTaskTcp_append(rd.t, c, "r", inp), ret |-> TRUE,
                   app |-> TRUE]
             ELSE IF k.rsize >= tcpConfig.readMark
             THEN [t |-> UtilTaskTcp_append(rd.t, c, "r", inp), ret |-> TRUE,
                   app |-> TRUE]
             ELSE [t |-> re.t, ret |-> re.ret, app |-> FALSE]
    ELSE IF tcpConfig.wtp
    THEN \* if (controller->enableEvents(false, true)) return false;
         LET r == enableEvents(t, c, {"w"}, inp.ok)
         IN  [t |-> r.t, ret |-> ~r.ret, app |-> FALSE]
    ELSE [t |-> t, ret |-> FALSE, app |-> FALSE]

\* SPSockTcp::HandleWrite.  app tells whether utilTask->append was called.
HandleWrite(t, c, inp) ==
    IF tcpConfig.wtp
    THEN LET k == t.connections[c]
             cw == commitWrite(t, c, inp)
             re == renableEvents(cw.t, c, inp)
         IN  IF k.peerClosed /\ k.rsize = 0
             THEN [t |-> t, ret |-> FALSE, app |-> FALSE]
             ELSE IF tcpConfig.writeMark = WriteMarkMax
             THEN [t |-> UtilTaskTcp_append(t, c, "w", inp), ret |-> TRUE,
                   app |-> TRUE]
             ELSE IF cw.ret = -1 THEN [t |-> cw.t, ret |-> FALSE, app |-> FALSE]
             ELSE IF cw.t.connections[c].wsize <= tcpConfig.writeMark
             THEN [t |-> UtilTaskTcp_append(cw.t, c, "w", inp), ret |-> TRUE,
                   app |-> TRUE]
             ELSE [t |-> re.t, ret |-> re.ret, app |-> FALSE]
    ELSE IF tcpConfig.rdp
    THEN \* if (controller->enableEvents(true, false)) return false;
         LET r == enableEvents(t, c, {"r"}, inp.ok)
         IN  [t |-> r.t, ret |-> ~r.ret, app |-> FALSE]
    ELSE [t |-> t, ret |-> FALSE, app |-> FALSE]

\* SPSockTcp::CloseConnection: close-callback, close(fd), erase the record.
\* On a record that was already erased the controller pointer dangles: the
\* callback is still called with it, and close() closes the same descriptor
\* again when the freed memory still holds it (staleFd).
CloseConnection(t, c, staleFd) ==
    IF t.connections[c].st = "live"
    THEN [t EXCEPT !.connections[c].closeCb = Min(MaxCount, @ + 1),
                   !.connections[c].fdClose = Min(MaxCount, @ + 1),
                   !.connections[c].reg = FALSE,
                   !.connections[c].armed = FALSE,
                   !.connections[c].kmask = {},
                   !.connections[c].st = "erased"]
    ELSE [t EXCEPT !.connections[c].closeCb = Min(MaxCount, @ + 1),
                   !.connections[c].fdClose =
                       IF staleFd THEN Min(MaxCount, @ + 1) ELSE @]

RECURSIVE CloseAll(_, _, _)
CloseAll(t, list, staleFd) ==
    IF list = <<>> THEN t
    ELSE CloseAll([CloseConnection(t, Head(list), staleFd)
                      EXCEPT !.count = IF @ > -1 THEN @ - 1 ELSE @],
                  Tail(list), staleFd)

\* SPSockTcp::HandleCloseList.  Above CloseListThreshold entries the list is
\* moved out and the lock released first; the closes are the same.
HandleCloseList(t, staleFd) ==
    IF Len(t.cList) > CloseListThreshold
    THEN CloseAll([t EXCEPT !.cList = <<>>], t.cList, staleFd)
    ELSE [CloseAll(t, t.cList, staleFd) EXCEPT !.cList = <<>>]

\* The accept outcomes of HandleConnect: accept fails with EMFILE or with
\* another error; fcntl fails; controller.init fails; EPOLL_CTL_ADD fails;
\* the connection is registered.
AcceptOutcomes == {"emfile", "error", "fcntl", "init", "add", "ok"}

\* SPSockTcp::HandleConnect for the next client (id accepted + 1).  When
\* controller.init fails the record's fd field still holds 0 from its
\* value-initialisation: CloseConnection calls the close-callback, closes
\* descriptor 0 and erases key 0, so the record stays in the table and the
\* socket stays open.
HandleConnect(t, acc) ==
    LET c == accepted + 1
        fresh == [NoConn EXCEPT !.connectCb = 1]
    IN  IF acc \in {"emfile", "error"} THEN [t |-> t, ret |-> FALSE, took |-> 0]
        ELSE IF acc = "fcntl" THEN [t |-> t, ret |-> TRUE, took |-> 0]
        ELSE IF acc = "init"
        THEN [t |-> [t EXCEPT !.connections[c] =
                        [fresh EXCEPT !.st = "live", !.closeCb = 1]],
              ret |-> TRUE, took |-> 1]
        ELSE IF acc = "add"
        THEN [t |-> CloseConnection([t EXCEPT !.connections[c] =
                                        [fresh EXCEPT !.st = "live"]], c, FALSE),
              ret |-> TRUE, took |-> 1]
        ELSE [t |-> [t EXCEPT !.connections[c] =
                        [fresh EXCEPT !.st = "live", !.reg = TRUE, !.armed = TRUE,
                                      !.kmask = tcpConfig.defEvent,
                                      !.events = tcpConfig.defEvent],
                               !.count = @ + 1],
              ret |-> TRUE, took |-> 1]

\* Writes a handler's result back to the shared variables.
Store(t) ==
    /\ connections' = t.connections
    /\ cList' = t.cList
    /\ taskQueue' = t.taskQueue
    /\ utilTask' = t.utilTask
    /\ wPc' = t.wPc
    /\ loopCount' = t.count

\* The reactor before its threads have done anything, under one of the
\* configurations cfgs.
InitTcpWith(cfgs) ==
    /\ tcpConfig \in cfgs
    /\ connections = [c \in Conns |-> NoConn]
    /\ cList = <<>>
    /\ taskQueue = <<>>
    /\ isStopped = FALSE
    /\ released = FALSE
    /\ utilTask = [flag |-> TRUE, back |-> 0, front |-> 0, size |-> 0,
                   tasks |-> [i \in 0..(tcpConfig.batch - 1) |-> NoTask]]
    /\ ioPc = "wait"
    /\ ioEvents = {}
    /\ exitfd = FALSE
    /\ wPc = "idle"
    /\ wTask = NoTask
    /\ wPending = [ret |-> FALSE, mask |-> {}]
    /\ accPc = "loop"
    /\ exitFlag = TRUE
    /\ exitSet = FALSE
    /\ stopCause = "none"
    /\ accepted = 0
    /\ loopCount = 0
    /\ faults = 0
    /\ delivered = 0

InitTcp == InitTcpWith(TcpConfigs)

IdleTcp ==
    /\ InitTcp
    /\ tcpConfig.name = "single"

\* ---- acceptor thread: MainEventLoop and the shutdown in EventLoop ----

\* SetExitFlag() or the signal handler HandleExit.
SetExitFlag ==
    /\ tcpConfig.exits
    /\ accPc = "loop"
    /\ exitFlag
    /\ exitFlag' = FALSE
    /\ exitSet' = TRUE
    /\ UNCHANGED <<tcpConfig, connections, cList, taskQueue, isStopped, released,
                   utilTask, ioPc, ioEvents, exitfd, wPc, wTask, wPending, accPc,
                   stopCause, accepted, loopCount, faults, delivered>>
    /\ UNCHANGED notTcpVars

\* One iteration of the loop of MainEventLoop.  ret: what poll returned;
\* tick: 50 ms have passed since the close list was last handled; acc: the
\* outcome of accept when a client is pending; staleFd: a dangling controller
\* still holds its descriptor.  An input that the iteration does not read is
\* held at one value.
MainEventLoopIter(ret, tick, acc, staleFd) ==
    /\ accPc = "loop"
    /\ exitFlag
    /\ ret = "ready" => accepted < tcpConfig.clients
    /\ ret = "timeout" => tick
    /\ ret \in {"eintr", "error"} => ~tick
    /\ ret # "ready" => acc = "ok"
    /\ staleFd => /\ tick
                  /\ \E i \in 1..Len(cList) :
                        \/ connections[cList[i]].st # "live"
                        \/ \E j \in 1..(i - 1) : cList[j] = cList[i]
    /\ LET fault == \/ ret = "error"
                    \/ ret = "ready" /\ acc # "ok"
           t1 == IF tick /\ ret # "error" /\ ret # "eintr"
                 THEN HandleCloseList(Shared, staleFd) ELSE Shared
           hc == IF ret = "ready" THEN HandleConnect(t1, acc)
                 ELSE [t |-> t1, ret |-> TRUE, took |-> 0]
       IN  /\ fault => faults < tcpConfig.faults
           /\ faults' = IF fault THEN faults + 1 ELSE faults
           /\ Store(hc.t)
           /\ accepted' = accepted + hc.took
           /\ IF ret = "error"
              THEN accPc' = "stopWait" /\ stopCause' = "poll"
              ELSE IF ~hc.ret
              THEN accPc' = "stopWait" /\ stopCause' = "accept"
              ELSE UNCHANGED <<accPc, stopCause>>
    /\ UNCHANGED <<tcpConfig, isStopped, released, ioPc, ioEvents, exitfd, wTask,
                   wPending, exitFlag, exitSet, delivered>>
    /\ UNCHANGED notTcpVars

\* The loop condition of MainEventLoop fails: it returns true.
MainEventLoopExit ==
    /\ accPc = "loop"
    /\ ~exitFlag
    /\ accPc' = "stopWait"
    /\ stopCause' = "exit"
    /\ UNCHANGED <<tcpConfig, connections, cList, taskQueue, isStopped, released,
                   utilTask, ioPc, ioEvents, exitfd, wPc, wTask, wPending,
                   exitFlag, exitSet, accepted, loopCount, faults, delivered>>
    /\ UNCHANGED notTcpVars

\* pool.exit(), first half of stopWait: isStopped.store(true), no lock taken.
StopWaitStore ==
    /\ accPc = "stopWait"
    /\ isStopped' = TRUE
    /\ accPc' = "notify"
    /\ UNCHANGED <<tcpConfig, connections, cList, taskQueue, released, utilTask,
                   ioPc, ioEvents, exitfd, wPc, wTask, wPending, exitFlag, exitSet,
                   stopCause, accepted, loopCount, faults, delivered>>
    /\ UNCHANGED notTcpVars

\* pool.exit(), second half of stopWait: notEmptyCond.notify_all().
StopWaitNotify ==
    /\ accPc = "notify"
    /\ wPc' = IF wPc = "blocked" THEN "waitpop" ELSE wPc
    /\ accPc' = "join"
    /\ UNCHANGED <<tcpConfig, connections, cList, taskQueue, isStopped, released,
                   utilTask, ioPc, ioEvents, exitfd, wTask, wPending, exitFlag,
                   exitSet, stopCause, accepted, loopCount, faults, delivered>>
    /\ UNCHANGED notTcpVars

\* pool.exit(): join the worker, then taskQueue.release().
PoolJoinRelease ==
    /\ accPc = "join"
    /\ wPc = "exited"
    /\ released' = TRUE
    /\ taskQueue' = <<>>
    /\ accPc' = "exitIO"
    /\ UNCHANGED <<tcpConfig, connections, cList, isStopped, utilTask, ioPc,
                   ioEvents, exitfd, wPc, wTask, wPending, exitFlag, exitSet,
                   stopCause, accepted, loopCount, faults, delivered>>
    /\ UNCHANGED notTcpVars

\* ExitIOEventLoop: write the exit eventfd of the loop.
ExitIOWrite ==
    /\ accPc = "exitIO"
    /\ exitfd' = TRUE
    /\ accPc' = "joinIO"
    /\ UNCHANGED <<tcpConfig, connections, cList, taskQueue, isStopped, released,
                   utilTask, ioPc, ioEvents, wPc, wTask, wPending, exitFlag,
                   exitSet, stopCause, accepted, loopCount, faults, delivered>>
    /\ UNCHANGED notTcpVars

\* ExitIOEventLoop: join the loop thread; EventLoop sets status 0x8 and returns.
ExitIOJoin ==
    /\ accPc = "joinIO"
    /\ ioPc = "exited"
    /\ accPc' = "returned"
    /\ UNCHANGED <<tcpConfig, connections, cList, taskQueue, isStopped, released,
                   utilTask, ioPc, ioEvents, exitfd, wPc, wTask, wPending, exitFlag,
                   exitSet, stopCause, accepted, loopCount, faults, delivered>>
    /\ UNCHANGED notTcpVars

\* ---- I/O loop thread: IOEventLoop ----

ExitEvent == [c |-> 0, ev |-> "exit", mask |-> {}]

\* The readiness the kernel can report for an armed connection: EPOLLHUP or
\* EPOLLERR ("hup"), EPOLLRDHUP with or without EPOLLIN ("rdhup"), EPOLLIN
\* ("in"), EPOLLOUT alone ("out").  Once the peer has shut down, every
\* report carries EPOLLRDHUP.
EventKinds(c) ==
    {"hup"}
        \cup (IF tcpConfig.halfClose THEN {"rdhup"} ELSE {})
        \cup (IF ~connections[c].peerClosed /\ "r" \in connections[c].kmask
              THEN {"in"} ELSE {})
        \cup (IF ~connections[c].peerClosed /\ "w" \in connections[c].kmask
              THEN {"out"} ELSE {})

\* What the system calls of one handler run do.  ok: epoll_ctl(MOD) accepted;
\* race/seen: a read of controller->events made while the worker is writing
\* it yields seen; n, rdok: bytes recv delivers and whether it ends without
\* error; drain, wrok: the same for send; uaf: the result of a push into a
\* released queue.
Inp(ok, rr, n, rdok, drain, wrok, uaf) ==
    [ok |-> ok, race |-> rr.race, seen |-> rr.seen, n |-> n, rdok |-> rdok,
     drain |-> drain, wrok |-> wrok, uaf |-> uaf]

NumFaults(inp) ==
    (IF inp.ok THEN 0 ELSE 1) + (IF inp.rdok THEN 0 ELSE 1)
        + (IF inp.wrok THEN 0 ELSE 1)

\* The outcomes of a system call: it can fail while failures remain.
Outcomes == IF faults < tcpConfig.faults THEN BOOLEAN ELSE {TRUE}

NoRace == [race |-> FALSE, seen |-> {}]

\* The values a read of connection c's cached mask can yield.
RaceReads(c) ==
    {NoRace} \cup
        (IF wPc = "ee" /\ wTask.ctx = c
         THEN {[race |-> TRUE, seen |-> m] :
                  m \in (IF wPending.ret THEN SUBSET wPending.mask ELSE {{}})
                           \ {connections[c].events}}
         ELSE {})

UafOutcomes == IF released THEN BOOLEAN ELSE {TRUE}

\* epoll_wait returns: the armed connections in S fire with the readiness f
\* and are disarmed (EPOLLONESHOT); the exit eventfd is reported once written.
IOEpollWait(S, f) ==
    /\ ioPc = "wait"
    /\ S # {} \/ exitfd
    /\ \A c \in S : connections[c].armed /\ f[c] \in EventKinds(c)
    /\ ioEvents' = {[c |-> c, ev |-> f[c], mask |-> connections[c].kmask] : c \in S}
                      \cup (IF exitfd THEN {ExitEvent} ELSE {})
    /\ connections' = [c \in Conns |->
                          IF c \in S
                          THEN [connections[c] EXCEPT !.armed = FALSE, !.kmask = {}]
                          ELSE connections[c]]
    /\ ioPc' = "proc"
    /\ delivered + Cardinality(S) <= tcpConfig.events
    /\ delivered' = delivered + Cardinality(S)
    /\ UNCHANGED <<tcpConfig, cList, taskQueue, isStopped, released, utilTask,
                   exitfd, wPc, wTask, wPending, accPc, exitFlag, exitSet,
                   stopCause, accepted, loopCount, faults>>
    /\ UNCHANGED notTcpVars

\* if (fd == exitfd) { delete[] events; return; }
IOExit ==
    /\ ioPc = "proc"
    /\ ExitEvent \in ioEvents
    /\ ioPc' = "exited"
    /\ ioEvents' = {}
    /\ UNCHANGED <<tcpConfig, connections, cList, taskQueue, isStopped, released,
                   utilTask, exitfd, wPc, wTask, wPending, accPc, exitFlag,
                   exitSet, stopCause, accepted, loopCount, faults, delivered>>
    /\ UNCHANGED notTcpVars

\* events & (EPOLLHUP | EPOLLERR): ActiveClose
IOHup(e) ==
    /\ ioPc = "proc"
    /\ e \in ioEvents
    /\ e.ev = "hup"
    /\ ioEvents' = ioEvents \ {e}
    /\ Store(ActiveClose(Shared, e.c))
    /\ UNCHANGED <<tcpConfig, isStopped, released, ioPc, exitfd, wTask, wPending,
                   accPc, exitFlag, exitSet, stopCause, accepted, faults, delivered>>
    /\ UNCHANGED notTcpVars

\* events & (EPOLLIN | EPOLLRDHUP): latch peerClosed, HandleRead, ActiveClose
\* when it returns false.  A push takes the queue's dataMutex, which a worker
\* holds from its test of the wait predicate until it blocks.
IORead(e, inp) ==
    /\ ioPc = "proc"
    /\ wPc # "towait"
    /\ e \in ioEvents
    /\ e.ev \in {"in", "rdhup"}
    /\ inp.n <= tcpConfig.rcap - connections[e.c].rsize
    /\ ioEvents' = ioEvents \ {e}
    /\ LET t0 == IF e.ev = "rdhup"
                 THEN [Shared EXCEPT !.connections[e.c].peerClosed = TRUE]
                 ELSE Shared
           r == HandleRead(t0, e.c, inp)
       IN  Store(IF r.ret THEN r.t ELSE ActiveClose(r.t, e.c))
    /\ NumFaults(inp) <= tcpConfig.faults - faults
    /\ faults' = faults + NumFaults(inp)
    /\ UNCHANGED <<tcpConfig, isStopped, released, ioPc, exitfd, wTask, wPending,
                   accPc, exitFlag, exitSet, stopCause, accepted, delivered>>
    /\ UNCHANGED notTcpVars

\* events & EPOLLOUT: HandleWrite, ActiveClose when it returns false.
IOWrite(e, inp) ==
    /\ ioPc = "proc"
    /\ wPc # "towait"
    /\ e \in ioEvents
    /\ e.ev = "out"
    /\ inp.drain <= connections[e.c].wsize
    /\ ioEvents' = ioEvents \ {e}
    /\ LET r == HandleWrite(Shared, e.c, inp)
       IN  Store(IF r.ret THEN r.t ELSE ActiveClose(r.t, e.c))
    /\ NumFaults(inp) <= tcpConfig.faults - faults
    /\ faults' = faults + NumFaults(inp)
    /\ UNCHANGED <<tcpConfig, isStopped, released, ioPc, exitfd, wTask, wPending,
                   accPc, exitFlag, exitSet, stopCause, accepted, delivered>>
    /\ UNCHANGED notTcpVars

\* utilTask.reset() at the end of one pass over the returned events.
IOReset(inp) ==
    /\ ioPc = "proc"
    /\ wPc # "towait"
    /\ ioEvents = {}
    /\ Store(UtilTaskTcp_reset(Shared, inp))
    /\ ioPc' = "wait"
    /\ NumFaults(inp) <= tcpConfig.faults - faults
    /\ faults' = faults + NumFaults(inp)
    /\ UNCHANGED <<tcpConfig, isStopped, released, ioEvents, exitfd, wTask,
                   wPending, accPc, exitFlag, exitSet, stopCause, accepted, delivered>>
    /\ UNCHANGED notTcpVars

\* ---- worker thread: ThreadPool::worker ----

\* taskQueue.pop(): a task, or the worker goes on to wait_pop.
WorkerPop ==
    /\ wPc = "idle"
    /\ IF taskQueue # <<>>
       THEN /\ wTask' = Head(taskQueue)
            /\ taskQueue' = Tail(taskQueue)
            /\ wPc' = "run"
       ELSE /\ wPc' = "waitpop"
            /\ UNCHANGED <<wTask, taskQueue>>
    /\ UNCHANGED <<tcpConfig, connections, cList, isStopped, released, utilTask,
                   ioPc, ioEvents, exitfd, wPending, accPc, exitFlag, exitSet,
                   stopCause, accepted, loopCount, faults, delivered>>
    /\ UNCHANGED notTcpVars

\* wait_pop: under dataMutex, test "isStopped || dataListHead != nullptr".
WorkerWaitPop ==
    /\ wPc = "waitpop"
    /\ IF taskQueue # <<>>
       THEN /\ wTask' = Head(taskQueue)
            /\ taskQueue' = Tail(taskQueue)
            /\ wPc' = "run"
       ELSE /\ wPc' = IF isStopped THEN "exited" ELSE "towait"
            /\ UNCHANGED <<wTask, taskQueue>>
    /\ UNCHANGED <<tcpConfig, connections, cList, isStopped, released, utilTask,
                   ioPc, ioEvents, exitfd, wPending, accPc, exitFlag, exitSet,
                   stopCause, accepted, loopCount, faults, delivered>>
    /\ UNCHANGED notTcpVars

\* wait_pop: the predicate was false; release dataMutex and block.
WorkerBlock ==
    /\ wPc = "towait"
    /\ wPc' = "blocked"
    /\ UNCHANGED <<tcpConfig, connections, cList, taskQueue, isStopped, released,
                   utilTask, ioPc, ioEvents, exitfd, wTask, wPending, accPc,
                   exitFlag, exitSet, stopCause, accepted, loopCount, faults, delivered>>
    /\ UNCHANGED notTcpVars

\* The read/write callback runs: it leaves rs bytes in the read ring and ws
\* in the write ring, then ends with close() (fin = "close") or enters
\* enableEvents(mask), whose epoll_ctl(MOD) is done in this step.
WorkerCallback(rs, ws, fin, mask, ok) ==
    /\ wPc = "run"
    /\ rs <= connections[wTask.ctx].rsize
    /\ tcpConfig.cbKeeps \/ rs = 0
    /\ mask \in tcpConfig.cbMasks \/ fin = "close"
    /\ ws <= tcpConfig.wcap
    /\ ~ok => faults < tcpConfig.faults
    /\ fin = "close" => mask = {} /\ ok
    /\ LET c == wTask.ctx
           t0 == [Shared EXCEPT !.connections[c].rsize = rs,
                                !.connections[c].wsize = ws]
           r == EnableEvent(t0, c, mask, ok)
       IN  IF fin = "close"
           THEN /\ Store([ActiveClose(t0, c) EXCEPT !.wPc = "idle"])
                /\ wTask' = NoTask
                /\ UNCHANGED wPending
           ELSE /\ Store([r.t EXCEPT !.wPc = "ee"])
                /\ wPending' = [ret |-> r.ret, mask |-> mask]
                /\ UNCHANGED wTask
    /\ faults' = IF ok THEN faults ELSE faults + 1
    /\ UNCHANGED <<tcpConfig, isStopped, released, ioPc, ioEvents, exitfd, accPc,
                   exitFlag, exitSet, stopCause, accepted, delivered>>
    /\ UNCHANGED notTcpVars

\* The rest of enableEvents: the cached mask is written; when it returned
\* false the callback calls close().  The task is done.
WorkerEnableDone ==
    /\ wPc = "ee"
    /\ LET c == wTask.ctx
           t0 == [Shared EXCEPT !.connections[c].events =
                                    IF wPending.ret THEN wPending.mask ELSE {}]
       IN  Store([(IF wPending.ret THEN t0 ELSE ActiveClose(t0, c))
                     EXCEPT !.wPc = "idle"])
    /\ wTask' = NoTask
    /\ wPending' = [ret |-> FALSE, mask |-> {}]
    /\ UNCHANGED <<tcpConfig, isStopped, released, ioPc, ioEvents, exitfd, accPc,
                   exitFlag, exitSet, stopCause, accepted, faults, delivered>>
    /\ UNCHANGED notTcpVars

NextTcp ==
    \/ SetExitFlag
    \/ \E ret \in {"eintr", "error", "timeout", "ready"}, tick \in BOOLEAN,
          acc \in AcceptOutcomes, staleFd \in BOOLEAN :
           MainEventLoopIter(ret, tick, acc, staleFd)
    \/ MainEventLoopExit
    \/ StopWaitStore
    \/ StopWaitNotify
    \/ PoolJoinRelease
    \/ ExitIOWrite
    \/ ExitIOJoin
    \/ \E S \in SUBSET Conns : \E f \in [S -> {"hup", "rdhup", "in", "out"}] :
           IOEpollWait(S, f)
    \/ IOExit
    \/ \E e \in ioEvents : IOHup(e)
    \/ \E e \in ioEvents : \E ok \in Outcomes, rr \in RaceReads(e.c),
          n \in 0..tcpConfig.rcap, rdok \in Outcomes, uaf \in UafOutcomes :
           IORead(e, Inp(ok, rr, n, rdok, 0, TRUE, uaf))
    \/ \E e \in ioEvents : \E ok \in Outcomes, rr \in RaceReads(e.c),
          drain \in 0..tcpConfig.wcap, wrok \in Outcomes, uaf \in UafOutcomes :
           IOWrite(e, Inp(ok, rr, 0, TRUE, drain, wrok, uaf))
    \/ \E ok \in Outcomes, uaf \in UafOutcomes :
           IOReset(Inp(ok, NoRace, 0, TRUE, 0, TRUE, uaf))
    \/ WorkerPop
    \/ WorkerWaitPop
    \/ WorkerBlock
    \/ \E rs \in 0..tcpConfig.rcap, ws \in 0..tcpConfig.wcap,
          fin \in {"close", "enable"}, mask \in Masks, ok \in Outcomes :
           WorkerCallback(rs, ws, fin, mask, ok)
    \/ WorkerEnableDone


(***************************************************************************)
(* SOCKController: the calls a callback makes on its connection            *)
(***************************************************************************)

\* Most sends in a row, within one call, that take every byte offered.
MaxSends == 2
\* The byte values on the peer's stream repeat after this many bytes.
StreamPeriod == 3

\* A distanceWrite that reports the room up to the end of the backing buffer.
SPBuffer_distanceWrite_toEnd(r) == bsize - r.front

\* A commitRead that takes the bytes off the count without moving back.
SPBuffer_commitRead_keep(r, len) == [r EXCEPT !.size = r.size - len]

\* SPBuffer::distanceWrite / distanceRead: the contiguous space / data.
SPBuffer_distanceWrite(r) == Min(bsize - r.front, bytesWrite(r))

SPBuffer_distanceRead(r) == Min(bsize - r.back, bytesRead(r))

\* SPBuffer::commitRead
SPBuffer_commitRead(r, len) ==
    [r EXCEPT !.back = (r.back + len) % bsize, !.size = r.size - len]

\* SPBuffer::commitWrite
SPBuffer_commitWrite(r, len) ==
    IF r.size + len = 0
    THEN [r EXCEPT !.front = 0, !.back = 0, !.size = 0]
    ELSE [r EXCEPT !.front = (r.front + len) % bsize, !.size = r.size + len]

\* The bytes a ring holds, oldest first.
Content(r) == SPBuffer_peek(r, r.size)

\* What one send() call can do: be interrupted, find the socket buffer full,
\* fail with EPIPE/ECONNRESET, fail with another error, take one byte, take
\* every byte offered.  A call's script lists the outcomes of its sends in
\* turn; when the script is used up the socket buffer is full.
SendOutcomes == {"eintr", "eagain", "epipe", "ebadf", "one", "all"}

\* The scripts tried: an optional EINTR, up to MaxSends sends that take all,
\* an optional send that takes one byte, and the outcome that ends the run.
SendScripts ==
    {(IF eintr THEN <<"eintr">> ELSE <<>>)
        \o [i \in 1..g |-> "all"]
        \o (IF part THEN <<"one">> ELSE <<>>)
        \o <<end>> :
     eintr \in BOOLEAN, g \in 0..MaxSends, part \in BOOLEAN,
     end \in {"eagain", "epipe", "ebadf"}}

\* SOCKController::writeInner: send, retried on EINTR; 0 on EAGAIN, -1 on
\* every other error.  errno tells afterwards which error it was.
RECURSIVE writeInner(_, _)
writeInner(len, sc) ==
    IF sc = <<>> THEN [ret |-> 0, rest |-> <<>>, errno |-> "eagain"]
    ELSE IF Head(sc) = "eintr" THEN writeInner(len, Tail(sc))
    ELSE IF Head(sc) = "eagain" THEN [ret |-> 0, rest |-> Tail(sc), errno |-> "eagain"]
    ELSE IF Head(sc) \in {"epipe", "ebadf"}
    THEN [ret |-> -1, rest |-> Tail(sc), errno |-> Head(sc)]
    ELSE [ret |-> IF Head(sc) = "one" THEN 1 ELSE len, rest |-> Tail(sc),
          errno |-> "none"]

\* A write() that reports EPIPE/ECONNRESET as writeInner does: -1, and the
\* peer-closed flag untouched.
SOCKController_write_inner(k, len, sc) ==
    LET w == writeInner(len, sc) IN [k |-> k, ret |-> w.ret, errno |-> w.errno]

\* SOCKController::write: send, retried on EINTR; 0 on EAGAIN, -2 with
\* peerClosed set on EPIPE/ECONNRESET, -1 on every other error.
RECURSIVE SOCKController_write(_, _, _)
SOCKController_write(k, len, sc) ==
    IF sc = <<>> THEN [k |-> k, ret |-> 0, errno |-> "eagain"]
    ELSE IF Head(sc) = "eintr" THEN SOCKController_write(k, len, Tail(sc))
    ELSE IF Head(sc) = "eagain" THEN [k |-> k, ret |-> 0, errno |-> "eagain"]
    ELSE IF Head(sc) = "epipe"
    THEN [k |-> [k EXCEPT !.conn.peerClosed = TRUE], ret |-> -2, errno |-> "epipe"]
    ELSE IF Head(sc) = "ebadf" THEN [k |-> k, ret |-> -1, errno |-> "ebadf"]
    ELSE [k |-> k, ret |-> IF Head(sc) = "one" THEN 1 ELSE len, errno |-> "none"]

\* SOCKController::commitWrite on the write ring wb: send the contiguous data
\* until the ring is empty, the socket takes less than offered, or send
\* fails.  sent collects the bytes the socket took.
RECURSIVE SOCKController_commitWrite(_, _, _)
SOCKController_commitWrite(wb, sc, sent) ==
    LET len == SPBuffer_distanceRead(wb) IN
    IF len = 0 THEN [buf |-> wb, ret |-> 0, rest |-> sc, sent |-> sent, errno |-> "none"]
    ELSE LET w == writeInner(len, sc) IN
         IF w.ret > 0
         THEN LET wb2 == SPBuffer_commitRead(wb, w.ret)
                  sent2 == sent \o MemGet(wb.buffer, wb.back, w.ret)
              IN  IF w.ret < len
                  THEN [buf |-> wb2, ret |-> bytesRead(wb2), rest |-> w.rest,
                        sent |-> sent2, errno |-> "none"]
                  ELSE SOCKController_commitWrite(wb2, w.rest, sent2)
         ELSE IF w.ret = 0
         THEN [buf |-> wb, ret |-> bytesRead(wb), rest |-> w.rest, sent |-> sent,
               errno |-> w.errno]
         ELSE [buf |-> wb, ret |-> w.ret, rest |-> w.rest, sent |-> sent,
               errno |-> w.errno]

\* The read-ring loop of SOCKController::writeBack: send the contiguous data
\* of the read ring until it is empty, the socket is full, or send fails.
RECURSIVE WriteBackLoop(_, _, _, _)
WriteBackLoop(rb, sc, sent, writeResult) ==
    LET chunk == SPBuffer_distanceRead(rb) IN
    IF chunk = 0 THEN [buf |-> rb, ret |-> writeResult, sent |-> sent, errno |-> "none"]
    ELSE LET w == writeInner(chunk, sc) IN
         IF w.ret > 0
         THEN WriteBackLoop(SPBuffer_commitRead(rb, w.ret), w.rest,
                            sent \o MemGet(rb.buffer, rb.back, w.ret),
                            writeResult + w.ret)
         ELSE IF w.ret = 0
         THEN [buf |-> rb, ret |-> writeResult, sent |-> sent, errno |-> w.errno]
         ELSE [buf |-> rb, ret |-> w.ret, sent |-> sent, errno |-> w.errno]

\* SOCKController::writeBack
SOCKController_writeBack(k, sc) ==
    LET cw == SOCKController_commitWrite(k.writeBuf, sc, <<>>) IN
    IF cw.ret # 0
    THEN [k |-> [k EXCEPT !.writeBuf = cw.buf], ret |-> cw.ret, sent |-> cw.sent,
          errno |-> cw.errno]
    ELSE LET wl == WriteBackLoop(k.readBuf, cw.rest, cw.sent, cw.ret)
         IN  [k |-> [k EXCEPT !.writeBuf = cw.buf, !.readBuf = wl.buf],
              ret |-> wl.ret, sent |-> wl.sent, errno |-> wl.errno]

\* The loop of SOCKController::moveToWriteBuffer.
RECURSIVE MoveLoop(_, _, _, _)
MoveLoop(rb, wb, moved, maxMove) ==
    IF moved >= maxMove THEN [readBuf |-> rb, writeBuf |-> wb, ret |-> moved]
    ELSE LET chunk == Min(SPBuffer_distanceRead(rb), SPBuffer_distanceWrite(wb)) IN
         IF chunk = 0 THEN [readBuf |-> rb, writeBuf |-> wb, ret |-> moved]
         ELSE MoveLoop(SPBuffer_commitRead(rb, chunk),
                       SPBuffer_commitWrite(
                           [wb EXCEPT !.buffer =
                               MemPut(@, wb.front, MemGet(rb.buffer, rb.back, chunk))],
                           chunk),
                       moved + chunk, maxMove)

\* A move that copies whole contiguous runs of the read ring, whatever
\* contiguous space the write ring has.
SOCKController_moveToWriteBuffer_readChunks(k) ==
    LET maxMove == Min(bytesRead(k.readBuf), bytesWrite(k.writeBuf))
        chunk == Min(SPBuffer_distanceRead(k.readBuf), maxMove)
        wb == k.writeBuf
        m == [k EXCEPT !.readBuf = SPBuffer_commitRead(@, chunk),
                       !.writeBuf = SPBuffer_commitWrite(
                           [wb EXCEPT !.buffer =
                               [i \in DOMAIN @ |->
                                   IF i >= wb.front /\ i < wb.front + chunk
                                   THEN k.readBuf.buffer[k.readBuf.back + i - wb.front]
                                   ELSE @[i]]],
                           chunk)]
    IN  [k |-> m, ret |-> chunk]

\* SOCKController::moveToWriteBuffer
SOCKController_moveToWriteBuffer(k) ==
    LET m == MoveLoop(k.readBuf, k.writeBuf, 0,
                      Min(bytesRead(k.readBuf), bytesWrite(k.writeBuf)))
    IN  [k |-> [k EXCEPT !.readBuf = m.readBuf, !.writeBuf = m.writeBuf],
         ret |-> m.ret]

\* SOCKController::readSocket on the read ring rb when the kernel holds the
\* bytes data: recv fills the contiguous space until it returns less than
\* asked for (or EAGAIN once data is used up).
RECURSIVE SOCKController_readSocket(_, _)
SOCKController_readSocket(rb, data) ==
    LET len == SPBuffer_distanceWrite(rb) IN
    IF len = 0 \/ data = <<>> THEN rb
    ELSE LET bytes == Min(len, Len(data))
             rb2 == SPBuffer_commitWrite(
                        [rb EXCEPT !.buffer = MemPut(@, rb.front, SubSeq(data, 1, bytes))],
                        bytes)
         IN  IF bytes < len THEN rb2
             ELSE SOCKController_readSocket(rb2, SubSeq(data, bytes + 1, Len(data)))

\* The n bytes that follow byte number from on the peer's stream, and n
\* bytes the application buffers.
InBytes(from, n) == [j \in 1..n |-> 1 + ((from + j - 1) % StreamPeriod)]

AppBytes(n) == [j \in 1..n |-> 10 + j]

\* The first outcome of a script that is not EINTR.
RECURSIVE FirstOutcome(_)
FirstOutcome(sc) ==
    IF sc = <<>> THEN "eagain"
    ELSE IF Head(sc) = "eintr" THEN FirstOutcome(Tail(sc))
    ELSE Head(sc)

\* The record of a call: its name, its arguments (len, mask), its result,
\* whether its first send was interrupted, the first outcome after that, and
\* errno when it returned.
NoCtlCall == [op |-> "none", ret |-> 0, len |-> 0, retried |-> FALSE,
              first |-> "none", errno |-> "none", mask |-> {}]

\* A freshly initialised controller (SOCKController::init), registered with
\* its loop.
FreshCtl == [conn |-> [NoConn EXCEPT !.st = "live", !.reg = TRUE,
                                    !.events = {"r"}, !.connectCb = 1],
             readBuf |-> RingInit([i \in 0..(bsize - 1) |-> 0]),
             writeBuf |-> RingInit([i \in 0..(bsize - 1) |-> 0])]

\* The ring of a fresh controller after b bytes of d went through it and s
\* more are buffered: filled, consumed by commitRead, filled again.
RingAfter(b, s, d) ==
    SPBuffer_write(
        SPBuffer_commitRead(
            SPBuffer_write(FreshCtl.readBuf, SubSeq(d, 1, b)).ring, b),
        SubSeq(d, b + 1, b + s)).ring

\* A controller with some history behind it: bytes went through both rings,
\* some are still buffered, the callback chose an interest mask, the peer
\* may have closed its side.
InitCtl ==
    /\ \E rb \in 0..(bsize - 1), rs \in 0..bsize,
          wb \in 0..(bsize - 1), ws \in 0..bsize,
          mask \in Masks, pc \in BOOLEAN :
           /\ ctl = [conn |-> [FreshCtl.conn EXCEPT !.events = mask,
                                                    !.peerClosed = pc],
                     readBuf |-> RingAfter(rb, rs, InBytes(0, 2 * bsize)),
                     writeBuf |-> RingAfter(wb, ws, AppBytes(2 * bsize))]
           /\ ctlIn = (rb + rs) % StreamPeriod
    /\ ctlLast = NoCtlCall

IdleCtl ==
    /\ ctl = FreshCtl
    /\ ctlIn = 0
    /\ ctlLast = NoCtlCall

\* One call is followed from each controller state.
CtlIdle == ctlLast.op = "none"

\* The controller as the one connection of a loop with an idle worker.
CtlShared == [connections |-> <<ctl.conn>>, wPc |-> "idle"]

\* The I/O loop drains the socket into the read ring: n bytes are pending.
CtlReadSocket(n) ==
    /\ CtlIdle
    /\ LET rb == SOCKController_readSocket(ctl.readBuf, InBytes(ctlIn, n)) IN
        /\ ctl' = [ctl EXCEPT !.readBuf = rb]
        /\ ctlIn' = (ctlIn + (rb.size - ctl.readBuf.size)) % StreamPeriod
        /\ ctlLast' = [NoCtlCall EXCEPT !.op = "readSocket", !.len = n]
    /\ UNCHANGED notCtlVars

\* read(buf, len)
CtlRead(len) ==
    /\ CtlIdle
    /\ LET r == SPBuffer_read(ctl.readBuf, len) IN
        /\ ctl' = [ctl EXCEPT !.readBuf = r.ring]
        /\ ctlLast' = [NoCtlCall EXCEPT !.op = "read", !.len = len,
                                        !.ret = Len(r.data)]
    /\ UNCHANGED ctlIn
    /\ UNCHANGED notCtlVars

\* writeTemp(buf, len)
CtlWriteTemp(len) ==
    /\ CtlIdle
    /\ LET r == SPBuffer_write(ctl.writeBuf, AppBytes(len)) IN
        /\ ctl' = [ctl EXCEPT !.writeBuf = r.ring]
        /\ ctlLast' = [NoCtlCall EXCEPT !.op = "writeTemp", !.len = len,
                                        !.ret = r.n]
    /\ UNCHANGED ctlIn
    /\ UNCHANGED notCtlVars

\* write(buf, len)
CtlWrite(len, sc) ==
    /\ CtlIdle
    /\ LET r == SOCKController_write(ctl, len, sc) IN
        /\ ctl' = r.k
        /\ ctlLast' = [NoCtlCall EXCEPT !.op = "write", !.len = len,
                                        !.ret = r.ret, !.errno = r.errno,
                                        !.retried = (Head(sc) = "eintr"),
                                        !.first = FirstOutcome(sc)]
    /\ UNCHANGED ctlIn
    /\ UNCHANGED notCtlVars

\* commitWrite()
CtlCommitWrite(sc) ==
    /\ CtlIdle
    /\ LET r == SOCKController_commitWrite(ctl.writeBuf, sc, <<>>) IN
        /\ ctl' = [ctl EXCEPT !.writeBuf = r.buf]
        /\ ctlLast' = [NoCtlCall EXCEPT !.op = "commitWrite", !.ret = r.ret,
                                        !.errno = r.errno]
    /\ UNCHANGED ctlIn
    /\ UNCHANGED notCtlVars

\* writeBack()
CtlWriteBack(sc) ==
    /\ CtlIdle
    /\ LET r == SOCKController_writeBack(ctl, sc) IN
        /\ ctl' = r.k
        /\ ctlLast' = [NoCtlCall EXCEPT !.op = "writeBack", !.ret = r.ret,
                                        !.errno = r.errno]
    /\ UNCHANGED ctlIn
    /\ UNCHANGED notCtlVars

\* moveToWriteBuffer()
CtlMoveToWriteBuffer ==
    /\ CtlIdle
    /\ LET r == SOCKController_moveToWriteBuffer(ctl) IN
        /\ ctl' = r.k
        /\ ctlLast' = [NoCtlCall EXCEPT !.op = "moveToWriteBuffer", !.ret = r.ret]
    /\ UNCHANGED ctlIn
    /\ UNCHANGED notCtlVars

\* enableEvents(read, write); ok: whether epoll_ctl succeeds.
CtlEnableEvents(mask, ok) ==
    /\ CtlIdle
    /\ LET r == enableEvents(CtlShared, 1, mask, ok) IN
        /\ ctl' = [ctl EXCEPT !.conn = r.t.connections[1]]
        /\ ctlLast' = [NoCtlCall EXCEPT !.op = "enableEvents", !.mask = mask,
                                        !.ret = IF r.ret THEN 1 ELSE 0]
    /\ UNCHANGED ctlIn
    /\ UNCHANGED notCtlVars

\* renableEvents(); ok: whether epoll_ctl succeeds.
CtlRenableEvents(ok) ==
    /\ CtlIdle
    /\ LET r == renableEvents(CtlShared, 1, Inp(ok, NoRace, 0, TRUE, 0, TRUE, TRUE)) IN
        /\ ctl' = [ctl EXCEPT !.conn = r.t.connections[1]]
        /\ ctlLast' = [NoCtlCall EXCEPT !.op = "renableEvents",
                                        !.ret = IF r.ret THEN 1 ELSE 0]
    /\ UNCHANGED ctlIn
    /\ UNCHANGED notCtlVars

NextCtl ==
    \/ \E n \in 1..bsize : CtlReadSocket(n)
    \/ \E len \in 1..bsize : CtlRead(len)
    \/ \E len \in 1..bsize : CtlWriteTemp(len)
    \/ \E len \in 1..bsize, sc \in SendScripts : CtlWrite(len, sc)
    \/ \E sc \in SendScripts : CtlCommitWrite(sc)
    \/ \E sc \in SendScripts : CtlWriteBack(sc)
    \/ CtlMoveToWriteBuffer
    \/ \E mask \in Masks, ok \in BOOLEAN : CtlEnableEvents(mask, ok)
    \/ \E ok \in BOOLEAN : CtlRenableEvents(ok)


(***************************************************************************)
(* Connection table and close list, statement by statement                 *)
(*                                                                         *)
(* The acceptor's HandleConnect and HandleCloseList and the I/O loops'     *)
(* event dispatch, one action per statement that touches the connection    *)
(* table, the close list or its mutex.  A position names the statement a   *)
(* thread is executing; the step out of it completes the statement.        *)
(***************************************************************************)

\* Descriptors accept() hands out while the model runs.
MaxFds == 2
\* I/O loops (loopInfo entries).
MaxLoops == 2
\* Connections accepted in one behaviour.
MaxAccepts == 3

AcceptFds == 1..MaxFds
\* Connections that hung up before the behaviour starts: one more than
\* CloseListThreshold, all on the close list.
BacklogFds == (MaxFds + 1)..(MaxFds + CloseListThreshold + 1)
TableFds == 1..(MaxFds + CloseListThreshold + 1)
Loops == 1..MaxLoops

\* No record for a descriptor.  info is controller->info (0: not set); a
\* record that was erased keeps what its memory held.
NoRec == [st |-> "absent", info |-> 0, reg |-> FALSE, armed |-> FALSE,
          open |-> FALSE]

NoAcc == [pc |-> "poll", fd |-> 0, idx |-> 0, moved |-> FALSE, from |-> "none"]

NoIo == [pc |-> "wait", fd |-> 0, ev |-> "none", raced |-> FALSE]

\* The loop a backlog connection was assigned to.
BacklogLoop(fd) == 1 + (fd % MaxLoops)

InitTbl ==
    \E backlog \in BOOLEAN :
        /\ tblConns = [fd \in TableFds |->
                          IF backlog /\ fd \in BacklogFds
                          THEN [st |-> "present", info |-> BacklogLoop(fd),
                                reg |-> FALSE, armed |-> FALSE, open |-> TRUE]
                          ELSE NoRec]
        /\ tblLoopInfo = [l \in Loops |->
                             IF backlog
                             THEN Cardinality({fd \in BacklogFds : BacklogLoop(fd) = l})
                             ELSE 0]
        /\ tblCList = IF backlog
                      THEN [i \in 1..(CloseListThreshold + 1) |-> MaxFds + i]
                      ELSE <<>>
        /\ tblMoved = <<>>
        /\ tblMtx = 0
        /\ tblAcc = NoAcc
        /\ tblIo = [l \in Loops |-> NoIo]
        /\ tblAccepts = 0

IdleTbl ==
    /\ tblConns = <<>>
    /\ tblLoopInfo = <<>>
    /\ tblCList = <<>>
    /\ tblMoved = <<>>
    /\ tblMtx = 0
    /\ tblAcc = NoAcc
    /\ tblIo = <<>>
    /\ tblAccepts = 0

\* The holder of cList.mtx: 0 when free, Acceptor, or the number of an I/O loop.
Acceptor == MaxLoops + 1

\* The acceptor starts emplace or erase: a find that an I/O loop is
\* executing now races with it.
MarkRaced == [l \in Loops |->
                 IF tblIo[l].pc = "find" THEN [tblIo[l] EXCEPT !.raced = TRUE]
                 ELSE tblIo[l]]

\* HandleCloseList, entry: lock cList.mtx; above CloseListThreshold entries
\* move the list out and unlock.
HandleCloseList_lock ==
    /\ tblAcc.pc = "poll"
    /\ tblMtx = 0
    /\ IF Len(tblCList) > CloseListThreshold
       THEN /\ tblMoved' = tblCList
            /\ tblCList' = <<>>
            /\ tblMtx' = 0
            /\ tblAcc' = [tblAcc EXCEPT !.pc = "next", !.idx = 1, !.moved = TRUE]
       ELSE /\ tblMtx' = Acceptor
            /\ tblAcc' = [tblAcc EXCEPT !.pc = "next", !.idx = 1, !.moved = FALSE]
            /\ UNCHANGED <<tblMoved, tblCList>>
    /\ UNCHANGED <<tblConns, tblLoopInfo, tblIo, tblAccepts>>
    /\ UNCHANGED notTblVars

\* HandleCloseList, head of the for loop: the next controller, or the end
\* of the function (the not-moved list is cleared and the lock released).
HandleCloseList_next ==
    /\ tblAcc.pc = "next"
    /\ LET list == IF tblAcc.moved THEN tblMoved ELSE tblCList IN
        IF tblAcc.idx <= Len(list)
        THEN /\ tblAcc' = [tblAcc EXCEPT !.pc = "csp", !.fd = list[tblAcc.idx],
                                         !.from = "list"]
             /\ UNCHANGED <<tblMoved, tblCList, tblMtx>>
        ELSE /\ tblAcc' = NoAcc
             /\ IF tblAcc.moved
                THEN tblMoved' = <<>> /\ UNCHANGED <<tblCList, tblMtx>>
                ELSE tblCList' = <<>> /\ tblMtx' = 0 /\ UNCHANGED tblMoved
    /\ UNCHANGED <<tblConns, tblLoopInfo, tblIo, tblAccepts>>
    /\ UNCHANGED notTblVars

\* CloseConnection: proc.csp(controller) returns.
CloseConnection_csp ==
    /\ tblAcc.pc = "csp"
    /\ tblAcc' = [tblAcc EXCEPT !.pc = "closefd"]
    /\ UNCHANGED <<tblConns, tblLoopInfo, tblCList, tblMoved, tblMtx, tblIo, tblAccepts>>
    /\ UNCHANGED notTblVars

\* CloseConnection: close(controller->fd) returns (the kernel drops a closed
\* descriptor from every readiness set); connections.erase begins.
\* Descriptor 0 is not one of the table's.
CloseConnection_close ==
    /\ tblAcc.pc = "closefd"
    /\ tblConns' = IF tblAcc.fd \in TableFds
                   THEN [tblConns EXCEPT ![tblAcc.fd].open = FALSE,
                                         ![tblAcc.fd].reg = FALSE,
                                         ![tblAcc.fd].armed = FALSE]
                   ELSE tblConns
    /\ tblAcc' = [tblAcc EXCEPT !.pc = "erase"]
    /\ tblIo' = MarkRaced
    /\ UNCHANGED <<tblLoopInfo, tblCList, tblMoved, tblMtx, tblAccepts>>
    /\ UNCHANGED notTblVars

\* CloseConnection: connections.erase(controller->fd) returns; the record
\* is destroyed.  Called from HandleConnect, the function returns.
CloseConnection_erase ==
    /\ tblAcc.pc = "erase"
    /\ tblConns' = IF tblAcc.fd \in TableFds
                   THEN [tblConns EXCEPT ![tblAcc.fd].st = "absent"]
                   ELSE tblConns
    /\ tblAcc' = IF tblAcc.from = "list" THEN [tblAcc EXCEPT !.pc = "count"]
                 ELSE NoAcc
    /\ UNCHANGED <<tblLoopInfo, tblCList, tblMoved, tblMtx, tblIo, tblAccepts>>
    /\ UNCHANGED notTblVars

\* HandleCloseList: controller->info->count--.  From a record that is
\* present, info is the loop it was assigned to; from an erased one it is
\* whatever the freed memory holds: l.
HandleCloseList_count(l) ==
    /\ tblAcc.pc = "count"
    /\ tblConns[tblAcc.fd].st = "present" => l = tblConns[tblAcc.fd].info
    /\ tblLoopInfo' = [tblLoopInfo EXCEPT ![l] = @ - 1]
    /\ tblAcc' = [tblAcc EXCEPT !.pc = "next", !.idx = @ + 1]
    /\ UNCHANGED <<tblConns, tblCList, tblMoved, tblMtx, tblIo, tblAccepts>>
    /\ UNCHANGED notTblVars

\* The lowest descriptor that is not open.
LowestFree == CHOOSE f \in AcceptFds :
                 /\ ~tblConns[f].open
                 /\ \A g \in AcceptFds : g < f => tblConns[g].open

\* HandleConnect: accept() returns a descriptor; connections.emplace begins.
HandleConnect_accept ==
    /\ tblAcc.pc = "poll"
    /\ tblAccepts < MaxAccepts
    /\ \E f \in AcceptFds : ~tblConns[f].open
    /\ tblConns' = [tblConns EXCEPT ![LowestFree].open = TRUE]
    /\ tblAcc' = [tblAcc EXCEPT !.pc = "emplace", !.fd = LowestFree,
                                !.from = "connect"]
    /\ tblIo' = MarkRaced
    /\ tblAccepts' = tblAccepts + 1
    /\ UNCHANGED <<tblLoopInfo, tblCList, tblMoved, tblMtx>>
    /\ UNCHANGED notTblVars

\* HandleConnect: connections.emplace(fd, SOCKController{}) returns.
HandleConnect_emplace ==
    /\ tblAcc.pc = "emplace"
    /\ tblConns' = [tblConns EXCEPT ![tblAcc.fd] =
                       [NoRec EXCEPT !.st = "present", !.open = TRUE]]
    /\ tblAcc' = [tblAcc EXCEPT !.pc = "init"]
    /\ UNCHANGED <<tblLoopInfo, tblCList, tblMoved, tblMtx, tblIo, tblAccepts>>
    /\ UNCHANGED notTblVars

\* A choice that ignores the counts: always the first loop.
LeastLoaded_first == CHOOSE l \in Loops : \A k \in Loops : l <= k

\* The loop HandleConnect picks: the first one with the least count.
LeastLoaded == CHOOSE l \in Loops :
                  /\ \A k \in Loops : tblLoopInfo[l] <= tblLoopInfo[k]
                  /\ \A k \in Loops : k < l => tblLoopInfo[l] < tblLoopInfo[k]

\* HandleConnect: controller.init(fd, ctx, info).  When it fails the fd
\* field still holds 0 and CloseConnection(&controller) works on that.
HandleConnect_init(ok) ==
    /\ tblAcc.pc = "init"
    /\ IF ok
       THEN /\ tblConns' = [tblConns EXCEPT ![tblAcc.fd].info = LeastLoaded]
            /\ tblAcc' = [tblAcc EXCEPT !.pc = "add"]
       ELSE /\ tblAcc' = [tblAcc EXCEPT !.pc = "csp", !.fd = 0]
            /\ UNCHANGED tblConns
    /\ UNCHANGED <<tblLoopInfo, tblCList, tblMoved, tblMtx, tblIo, tblAccepts>>
    /\ UNCHANGED notTblVars

\* HandleConnect: epoll_ctl(EPOLL_CTL_ADD) and info->count++, or
\* CloseConnection(&controller) when it fails.
HandleConnect_add(ok) ==
    /\ tblAcc.pc = "add"
    /\ IF ok
       THEN /\ tblConns' = [tblConns EXCEPT ![tblAcc.fd].reg = TRUE,
                                            ![tblAcc.fd].armed = TRUE]
            /\ tblLoopInfo' = [tblLoopInfo EXCEPT ![tblConns[tblAcc.fd].info] = @ + 1]
            /\ tblAcc' = NoAcc
       ELSE /\ tblAcc' = [tblAcc EXCEPT !.pc = "csp"]
            /\ UNCHANGED <<tblConns, tblLoopInfo>>
    /\ UNCHANGED <<tblCList, tblMoved, tblMtx, tblIo, tblAccepts>>
    /\ UNCHANGED notTblVars

\* IOEventLoop of loop l: epoll_wait reports descriptor f (one-shot: it is
\* disarmed); connections.find(f) begins.
IOEventLoop_event(l, f, ev) ==
    /\ tblIo[l].pc = "wait"
    /\ tblConns[f].reg /\ tblConns[f].armed /\ tblConns[f].info = l
    /\ tblConns' = [tblConns EXCEPT ![f].armed = FALSE]
    /\ tblIo' = [tblIo EXCEPT ![l] =
                    [pc |-> "find", fd |-> f, ev |-> ev,
                     raced |-> tblAcc.pc \in {"emplace", "erase"}]]
    /\ UNCHANGED <<tblLoopInfo, tblCList, tblMoved, tblMtx, tblAcc, tblAccepts>>
    /\ UNCHANGED notTblVars

\* IOEventLoop: connections.find(fd) returns.  A find that ran while the
\* acceptor was inside emplace or erase may also return anything (ok =
\* FALSE): the thread is then lost.
IOEventLoop_find(l, ok) ==
    /\ tblIo[l].pc = "find"
    /\ ~ok => tblIo[l].raced
    /\ tblIo' = [tblIo EXCEPT ![l].pc = IF ok THEN "handle" ELSE "wild"]
    /\ UNCHANGED <<tblConns, tblLoopInfo, tblCList, tblMoved, tblMtx, tblAcc, tblAccepts>>
    /\ UNCHANGED notTblVars

\* IOEventLoop: the handler re-arms the connection (keep), or it fails or
\* the event is EPOLLHUP/EPOLLERR: ActiveClose does EPOLL_CTL_DEL.
IOEventLoop_handle(l, keep) ==
    /\ tblIo[l].pc = "handle"
    /\ tblIo[l].ev = "hup" => ~keep
    /\ IF keep
       THEN /\ tblConns' = [tblConns EXCEPT ![tblIo[l].fd].armed = TRUE]
            /\ tblIo' = [tblIo EXCEPT ![l] = NoIo]
       ELSE /\ tblConns' = [tblConns EXCEPT ![tblIo[l].fd].reg = FALSE]
            /\ tblIo' = [tblIo EXCEPT ![l].pc = "lock"]
    /\ UNCHANGED <<tblLoopInfo, tblCList, tblMoved, tblMtx, tblAcc, tblAccepts>>
    /\ UNCHANGED notTblVars

\* ActiveClose: std::lock_guard lock(cList.mtx) is acquired.
ActiveClose_lock(l) ==
    /\ tblIo[l].pc = "lock"
    /\ tblMtx = 0
    /\ tblMtx' = l
    /\ tblIo' = [tblIo EXCEPT ![l].pc = "push"]
    /\ UNCHANGED <<tblConns, tblLoopInfo, tblCList, tblMoved, tblAcc, tblAccepts>>
    /\ UNCHANGED notTblVars

\* ActiveClose: cList.connections.push_back(controller); the lock is released.
ActiveClose_push(l) ==
    /\ tblIo[l].pc = "push"
    /\ tblCList' = Append(tblCList, tblIo[l].fd)
    /\ tblMtx' = 0
    /\ tblIo' = [tblIo EXCEPT ![l] = NoIo]
    /\ UNCHANGED <<tblConns, tblLoopInfo, tblMoved, tblAcc, tblAccepts>>
    /\ UNCHANGED notTblVars

NextTbl ==
    \/ HandleCloseList_lock
    \/ HandleCloseList_next
    \/ CloseConnection_csp
    \/ CloseConnection_close
    \/ CloseConnection_erase
    \/ \E l \in Loops : HandleCloseList_count(l)
    \/ HandleConnect_accept
    \/ HandleConnect_emplace
    \/ \E ok \in BOOLEAN : HandleConnect_init(ok)
    \/ \E ok \in BOOLEAN : HandleConnect_add(ok)
    \/ \E l \in Loops, f \in AcceptFds, ev \in {"hup", "io"} :
           IOEventLoop_event(l, f, ev)
    \/ \E l \in Loops, ok \in BOOLEAN : IOEventLoop_find(l, ok)
    \/ \E l \in Loops, keep \in BOOLEAN : IOEventLoop_handle(l, keep)
    \/ \E l \in Loops : ActiveClose_lock(l)
    \/ \E l \in Loops : ActiveClose_push(l)

(***************************************************************************)
(* One pass of IOEventLoop: the events of one epoll_wait, then reset()     *)
(***************************************************************************)

\* Largest THREADPOOL_BATCH_SIZE_SUBMIT tried.
MaxBatch == 3

\* The configurations a pass is followed under (fields as in TcpConfigs;
\* faults: how many system calls may fail while one event is handled).
PassConfigs ==
    { [name |-> "single", rdp |-> TRUE, wtp |-> FALSE, readMark |-> 0,
       writeMark |-> WriteMarkMax, batch |-> 1, qlen |-> 1, rcap |-> 1,
       wcap |-> 0, defEvent |-> {"r"}, clients |-> MaxClients, faults |-> 1,
       halfClose |-> TRUE, exits |-> FALSE, cbMasks |-> {{"r"}},
       cbKeeps |-> FALSE, events |-> MaxEvents],
      [name |-> "marks", rdp |-> TRUE, wtp |-> TRUE, readMark |-> 2,
       writeMark |-> 1, batch |-> 1, qlen |-> 1, rcap |-> 2,
       wcap |-> 2, defEvent |-> {"r", "w"}, clients |-> 1, faults |-> 1,
       halfClose |-> TRUE, exits |-> FALSE, cbMasks |-> Masks,
       cbKeeps |-> TRUE, events |-> MaxEvents],
      [name |-> "writeonly", rdp |-> FALSE, wtp |-> TRUE, readMark |-> 0,
       writeMark |-> WriteMarkMax, batch |-> 1, qlen |-> 1, rcap |-> 1,
       wcap |-> 1, defEvent |-> {"r", "w"}, clients |-> 1, faults |-> 1,
       halfClose |-> TRUE, exits |-> FALSE, cbMasks |-> {{"w"}},
       cbKeeps |-> FALSE, events |-> MaxEvents],
      [name |-> "readonly", rdp |-> TRUE, wtp |-> FALSE, readMark |-> 0,
       writeMark |-> WriteMarkMax, batch |-> 1, qlen |-> 1, rcap |-> 1,
       wcap |-> 0, defEvent |-> {"r", "w"}, clients |-> 1, faults |-> 1,
       halfClose |-> FALSE, exits |-> FALSE, cbMasks |-> {{"r"}},
       cbKeeps |-> FALSE, events |-> MaxEvents] }
    \cup
    { [name |-> "batched", rdp |-> TRUE, wtp |-> FALSE, readMark |-> 0,
       writeMark |-> WriteMarkMax, batch |-> b, qlen |-> q, rcap |-> 1,
       wcap |-> 0, defEvent |-> {"r"}, clients |-> MaxClients, faults |-> 0,
       halfClose |-> FALSE, exits |-> FALSE, cbMasks |-> {{"r"}},
       cbKeeps |-> FALSE, events |-> MaxEvents] :
      b \in 2..MaxBatch, q \in 1..2 }

\* The readiness epoll_wait can return for a connection armed with mask.
PassKinds(mask) ==
    {"hup"}
        \cup (IF tcpConfig.halfClose THEN {"rdhup"} ELSE {})
        \cup (IF "r" \in mask THEN {"in"} ELSE {})
        \cup (IF "w" \in mask THEN {"out"} ELSE {})

NoPassEvent == [op |-> "none", c |-> 0, ev |-> "none", ok |-> TRUE,
                rdok |-> TRUE, ret |-> TRUE, app |-> FALSE]

\* How many tasks of connection c the sequence q holds.
RECURSIVE TasksOf(_, _)
TasksOf(q, c) ==
    IF q = <<>> THEN 0
    ELSE (IF Head(q).ctx = c THEN 1 ELSE 0) + TasksOf(Tail(q), c)

\* epoll_wait has just returned one event for each of the connections
\* 1..clients.  Each was armed with the default events and is disarmed now
\* (EPOLLONESHOT); its rings hold what its last callback left; the staging
\* buffer is empty at the index the earlier passes left it at; the worker
\* queue is empty and the failure latch clear (flag = true).
InitPass ==
    /\ passPc = "proc"
    /\ passApp = {}
    /\ passEnq = [c \in Conns |-> 0]
    /\ passLast = NoPassEvent
    /\ \E at \in 0..(tcpConfig.batch - 1),
          rs \in [Conns -> 0..(IF tcpConfig.cbKeeps THEN tcpConfig.readMark - 1 ELSE 0)],
          ws \in [Conns -> 0..tcpConfig.wcap],
          ev \in [Conns -> PassKinds(tcpConfig.defEvent)] :
        /\ \A c \in Conns : c > tcpConfig.clients => rs[c] = 0 /\ ws[c] = 0 /\ ev[c] = "hup"
        /\ pass = [connections |->
                       [c \in Conns |->
                           IF c <= tcpConfig.clients
                           THEN [NoConn EXCEPT !.st = "live", !.reg = TRUE,
                                               !.events = tcpConfig.defEvent,
                                               !.rsize = rs[c], !.wsize = ws[c],
                                               !.connectCb = 1]
                           ELSE NoConn],
                   cList |-> <<>>,
                   taskQueue |-> <<>>,
                   utilTask |-> [flag |-> TRUE, back |-> at, front |-> at, size |-> 0,
                                 tasks |-> [i \in 0..(tcpConfig.batch - 1) |-> NoTask]],
                   wPc |-> "idle",
                   count |-> tcpConfig.clients]
        /\ passPend = {[c |-> c, ev |-> ev[c]] : c \in 1..tcpConfig.clients}

IdlePass ==
    /\ passPc = "done"
    /\ passApp = {}
    /\ passEnq = [c \in Conns |-> 0]
    /\ passLast = NoPassEvent
    /\ pass = [connections |-> [c \in Conns |-> NoConn], cList |-> <<>>,
               taskQueue |-> <<>>,
               utilTask |-> [flag |-> TRUE, back |-> 0, front |-> 0, size |-> 0,
                             tasks |-> [i \in 0..0 |-> NoTask]],
               wPc |-> "idle", count |-> 0]
    /\ passPend = {}

\* The pushes of a step from pass to t, counted per connection.
Pushed(t) ==
    [c \in Conns |->
        passEnq[c] + TasksOf(t.taskQueue, c) - TasksOf(pass.taskQueue, c)]

\* events & (EPOLLHUP | EPOLLERR): ActiveClose
PassHup(e) ==
    /\ passPc = "proc"
    /\ e \in passPend
    /\ e.ev = "hup"
    /\ passPend' = passPend \ {e}
    /\ pass' = ActiveClose(pass, e.c)
    /\ passLast' = [NoPassEvent EXCEPT !.op = "hup", !.c = e.c, !.ev = e.ev]
    /\ UNCHANGED <<passApp, passEnq, passPc>>
    /\ UNCHANGED notPassVars

\* events & (EPOLLIN | EPOLLRDHUP): latch peerClosed, HandleRead, ActiveClose
\* when it returns false.
PassRead(e, inp) ==
    /\ passPc = "proc"
    /\ e \in passPend
    /\ e.ev \in {"in", "rdhup"}
    /\ inp.n <= tcpConfig.rcap - pass.connections[e.c].rsize
    /\ NumFaults(inp) <= tcpConfig.faults
    /\ passPend' = passPend \ {e}
    /\ LET t0 == IF e.ev = "rdhup"
                 THEN [pass EXCEPT !.connections[e.c].peerClosed = TRUE]
                 ELSE pass
           r == HandleRead(t0, e.c, inp)
           t1 == IF r.ret THEN r.t ELSE ActiveClose(r.t, e.c)
       IN  /\ pass' = t1
           /\ passApp' = IF r.app THEN passApp \cup {e.c} ELSE passApp
           /\ passEnq' = Pushed(t1)
           /\ passLast' = [op |-> "read", c |-> e.c, ev |-> e.ev, ok |-> inp.ok,
                           rdok |-> inp.rdok, ret |-> r.ret, app |-> r.app]
    /\ UNCHANGED passPc
    /\ UNCHANGED notPassVars

\* events & EPOLLOUT: HandleWrite, ActiveClose when it returns false.
PassWrite(e, inp) ==
    /\ passPc = "proc"
    /\ e \in passPend
    /\ e.ev = "out"
    /\ inp.drain <= pass.connections[e.c].wsize
    /\ NumFaults(inp) <= tcpConfig.faults
    /\ passPend' = passPend \ {e}
    /\ LET r == HandleWrite(pass, e.c, inp)
           t1 == IF r.ret THEN r.t ELSE ActiveClose(r.t, e.c)
       IN  /\ pass' = t1
           /\ passApp' = IF r.app THEN passApp \cup {e.c} ELSE passApp
           /\ passEnq' = Pushed(t1)
           /\ passLast' = [op |-> "write", c |-> e.c, ev |-> e.ev, ok |-> inp.ok,
                           rdok |-> TRUE, ret |-> r.ret, app |-> r.app]
    /\ UNCHANGED passPc
    /\ UNCHANGED notPassVars

\* utilTask.reset() after the last event of the pass.
PassReset(inp) ==
    /\ passPc = "proc"
    /\ passPend = {}
    /\ NumFaults(inp) <= tcpConfig.faults
    /\ LET t1 == UtilTaskTcp_reset(pass, inp)
       IN  /\ pass' = t1
           /\ passEnq' = Pushed(t1)
    /\ passLast' = [NoPassEvent EXCEPT !.op = "reset", !.ok = inp.ok]
    /\ passPc' = "done"
    /\ UNCHANGED <<passPend, passApp>>
    /\ UNCHANGED notPassVars

\* Meanwhile a worker pops a task off the queue: a node becomes free.
PassPop ==
    /\ passPc = "proc"
    /\ pass.taskQueue # <<>>
    /\ pass' = [pass EXCEPT !.taskQueue = Tail(@)]
    /\ UNCHANGED <<passPend, passApp, passEnq, passLast, passPc>>
    /\ UNCHANGED notPassVars

NextPass ==
    \/ \E e \in passPend : PassHup(e)
    \/ \E e \in passPend : \E ok \in BOOLEAN, n \in 0..tcpConfig.rcap, rdok \in BOOLEAN :
           PassRead(e, Inp(ok, NoRace, n, rdok, 0, TRUE, TRUE))
    \/ \E e \in passPend : \E ok \in BOOLEAN, drain \in 0..tcpConfig.wcap, wrok \in BOOLEAN :
           PassWrite(e, Inp(ok, NoRace, 0, TRUE, drain, wrok, TRUE))
    \/ \E ok \in BOOLEAN : PassReset(Inp(ok, NoRace, 0, TRUE, 0, TRUE, TRUE))
    \/ PassPop

(***************************************************************************)
(* One pass of IOEventLoop under every read watermark                      *)
(***************************************************************************)

\* READ_BSIZE of the configurations below.  SetWaterMark stores any
\* unsigned readMark: the marks tried go from 0 to one above READ_BSIZE.
MarkCap == 2

\* One client, both callbacks registered, and markGlobal.readMark = m.
MarkConfigs ==
    { [name |-> "mark", rdp |-> TRUE, wtp |-> TRUE, readMark |-> m,
       writeMark |-> 1, batch |-> 1, qlen |-> 1, rcap |-> MarkCap,
       wcap |-> 2, defEvent |-> {"r", "w"}, clients |-> 1, faults |-> 1,
       halfClose |-> TRUE, exits |-> FALSE, cbMasks |-> Masks,
       cbKeeps |-> TRUE, events |-> MaxEvents] :
      m \in 0..(MarkCap + 1) }

\* As InitPass, with the read ring holding anything up to READ_BSIZE: what
\* the callback left plus what earlier passes drained from the socket
\* without meeting the mark.
InitMark ==
    /\ passPc = "proc"
    /\ passApp = {}
    /\ passEnq = [c \in Conns |-> 0]
    /\ passLast = NoPassEvent
    /\ \E rs \in [Conns -> 0..tcpConfig.rcap],
          ws \in [Conns -> 0..tcpConfig.wcap],
          ev \in [Conns -> PassKinds(tcpConfig.defEvent)] :
        /\ \A c \in Conns : c > tcpConfig.clients => rs[c] = 0 /\ ws[c] = 0 /\ ev[c] = "hup"
        /\ pass = [connections |->
                       [c \in Conns |->
                           IF c <= tcpConfig.clients
                           THEN [NoConn EXCEPT !.st = "live", !.reg = TRUE,
                                               !.events = tcpConfig.defEvent,
                                               !.rsize = rs[c], !.wsize = ws[c],
                                               !.connectCb = 1]
                           ELSE NoConn],
                   cList |-> <<>>,
                   taskQueue |-> <<>>,
                   utilTask |-> [flag |-> TRUE, back |-> 0, front |-> 0, size |-> 0,
                                 tasks |-> [i \in 0..(tcpConfig.batch - 1) |-> NoTask]],
                   wPc |-> "idle",
                   count |-> tcpConfig.clients]
        /\ passPend = {[c |-> c, ev |-> ev[c]] : c \in 1..tcpConfig.clients}

\* The producer fills len bytes of S in at writePtr() and calls
\* commitWrite(len), len within distanceWrite() (as readSocket does with recv).
RingCommitWrite(len) ==
    /\ len <= Len(rsrc)
    /\ len <= SPBuffer_distanceWrite(ring)
    /\ ring' = SPBuffer_commitWrite(
                   [ring EXCEPT !.buffer = MemPut(@, ring.front, SubSeq(rsrc, 1, len))],
                   len)
    /\ rsent' = rsent \o SubSeq(rsrc, 1, len)
    /\ rsrc' = SubSeq(rsrc, len + 1, Len(rsrc))
    /\ UNCHANGED rout
    /\ UNCHANGED notRingVars

\* The consumer takes len bytes at readPtr() and calls commitRead(len), len
\* within distanceRead() (as SOCKController::commitWrite does after send).
RingCommitRead(len) ==
    /\ len <= SPBuffer_distanceRead(ring)
    /\ rout' = rout \o MemGet(ring.buffer, ring.back, len)
    /\ ring' = SPBuffer_commitRead(ring, len)
    /\ UNCHANGED <<rsrc, rsent>>
    /\ UNCHANGED notRingVars

\* Every operation of the ring: write, read (which returns what peek
\* returns), commitWrite and commitRead.
NextRingOps ==
    \/ \E len \in 1..MaxChunk : RingWrite(len)
    \/ \E len \in 1..MaxChunk : RingRead(len)
    \/ \E len \in 0..MaxChunk : RingCommitWrite(len)
    \/ \E len \in 1..MaxChunk : RingCommitRead(len)

(***************************************************************************)
(* CalculateOptimalThreadCounts                                            *)
(***************************************************************************)

\* Largest std::thread::hardware_concurrency() the split is computed for.
MaxConcurrency == 16
\* WORKER_THREAD_RATIO is num / RatioDen with 0 < num < RatioDen; eighths
\* are floats, and so are their products with the hardware counts tried.
RatioDen == 8

NoCalc == [pc |-> "done", hardware |-> 0, num |-> 1, ret |-> FALSE,
           ioThreads |-> 0, workerThreads |-> 0]

\* The split without the two corrections.
CalculateOptimalThreadCounts_raw(hardware, num) ==
    IF hardware = 0
    THEN [ret |-> FALSE, ioThreads |-> 0, workerThreads |-> 0]
    ELSE IF hardware <= 2
    THEN [ret |-> TRUE, ioThreads |-> 1, workerThreads |-> 1]
    ELSE LET w == (2 * hardware * num + RatioDen) \div (2 * RatioDen)
         IN  [ret |-> TRUE, ioThreads |-> hardware - w, workerThreads |-> w]

\* SPSockTcp::CalculateOptimalThreadCounts(&ioThreads, &workerThreads) with
\* hardware_concurrency() = hardware and WORKER_THREAD_RATIO = num / RatioDen.
\* *workerThreads = hardware * weight + 0.5 truncates the sum to an int.
CalculateOptimalThreadCounts(hardware, num) ==
    IF hardware = 0
    THEN [ret |-> FALSE, ioThreads |-> 0, workerThreads |-> 0]
    ELSE IF hardware <= 2
    THEN [ret |-> TRUE, ioThreads |-> 1, workerThreads |-> 1]
    ELSE LET w == (2 * hardware * num + RatioDen) \div (2 * RatioDen)
             io == hardware - w
         IN  IF w = 0
             THEN [ret |-> TRUE, ioThreads |-> io - 1, workerThreads |-> w + 1]
             ELSE IF io = 0
             THEN [ret |-> TRUE, ioThreads |-> io + 1, workerThreads |-> w - 1]
             ELSE [ret |-> TRUE, ioThreads |-> io, workerThreads |-> w]

\* EventLoop is about to compute the split on a machine with some hardware
\* concurrency, configured with some worker ratio.
InitCalc ==
    \E hardware \in 0..MaxConcurrency, num \in 1..(RatioDen - 1) :
        calc = [NoCalc EXCEPT !.pc = "call", !.hardware = hardware, !.num = num]

IdleCalc == calc = NoCalc


CalcCall ==
    /\ calc.pc = "call"
    /\ LET r == CalculateOptimalThreadCounts(calc.hardware, calc.num)
       IN  calc' = [calc EXCEPT !.pc = "done", !.ret = r.ret,
                                !.ioThreads = r.ioThreads,
                                !.workerThreads = r.workerThreads]
    /\ UNCHANGED notCalcVars

NextCalc == CalcCall

(***************************************************************************)
(* The task queue: BlockQueue and TPBlockQueue, with concurrent users      *)
(*                                                                         *)
(* BlockQueue keeps its nodes on a free list (freeListMutex) and a data    *)
(* list (dataMutex); an operation is two critical sections with the        *)
(* element constructed or moved out in between, and each critical section  *)
(* is one step.  TPBlockQueue does a whole operation under dataMutex.      *)
(* Node::prev is written and never read; it is left out.  The waiting      *)
(* variants do what the plain ones do once their condition holds.          *)
(***************************************************************************)

\* init(capacity)
QCap == 3
\* Elements each producer pushes.
MaxPush == 2
\* Threads that push and threads that pop.
MaxProducers == 2
MaxConsumers == 2

Producers == 1..MaxProducers
Consumers == 1..MaxConsumers
QNodes == 1..QCap

\* The i-th element of producer p, its producer and its number.
Elem(p, i) == p * (MaxPush + 1) + i
ElemProducer(e) == e \div (MaxPush + 1)
ElemNumber(e) == e % (MaxPush + 1)

NoProd == [pc |-> "idle", head |-> 0, count |-> 0, sent |-> 0]
NoCons == [pc |-> "idle", head |-> 0, tail |-> 0, n |-> 0, got |-> <<>>]

\* BlockQueue::init / TPBlockQueue::init: the nodes chained on the free
\* list, or closed into a ring with head and tail on the first node.
InitBq ==
    /\ \E kind \in {"BlockQueue", "TPBlockQueue"} :
           bq = [kind |-> kind,
                 nodes |-> [n \in QNodes |->
                               [data |-> 0,
                                next |-> IF n < QCap THEN n + 1
                                         ELSE IF kind = "BlockQueue" THEN 0 ELSE 1]],
                 freeListHead |-> IF kind = "BlockQueue" THEN 1 ELSE 0,
                 dataListHead |-> IF kind = "BlockQueue" THEN 0 ELSE 1,
                 dataListTail |-> IF kind = "BlockQueue" THEN 0 ELSE 1,
                 size |-> 0]
    /\ bqProd = [p \in Producers |-> NoProd]
    /\ bqCons = [c \in Consumers |-> NoCons]
    /\ bqOut = <<>>

IdleBq ==
    /\ bq = [kind |-> "none", nodes |-> <<>>, freeListHead |-> 0,
             dataListHead |-> 0, dataListTail |-> 0, size |-> 0]
    /\ bqProd = <<>>
    /\ bqCons = <<>>
    /\ bqOut = <<>>


\* The nodes reached from n over next, at most k of them.
RECURSIVE Chain(_, _, _)
Chain(nodes, n, k) ==
    IF n = 0 \/ k = 0 THEN <<>>
    ELSE <<n>> \o Chain(nodes, nodes[n].next, k - 1)

\* The data of the nodes of a chain.
ChainData(nodes, ch) == [i \in 1..Len(ch) |-> nodes[ch[i]].data]

\* BlockQueue::allocateNodeUnsafe
allocateNodeUnsafe(q) ==
    IF q.freeListHead = 0 THEN [q |-> q, node |-> 0]
    ELSE [q |-> [q EXCEPT !.freeListHead = q.nodes[q.freeListHead].next],
          node |-> q.freeListHead]

\* BlockQueue::allocateNodesUnsafe
allocateNodesUnsafe(q, count) ==
    IF q.freeListHead = 0 \/ count = 0 THEN [q |-> q, node |-> 0]
    ELSE LET ch == Chain(q.nodes, q.freeListHead, count)
             tail == ch[Len(ch)]
         IN  [q |-> [q EXCEPT !.freeListHead = q.nodes[tail].next,
                              !.nodes[tail].next = 0],
              node |-> q.freeListHead]

\* BlockQueue::recycleNodesUnsafe
recycleNodesUnsafe(q, head, tail) ==
    IF head = 0 \/ tail = 0 THEN q
    ELSE [q EXCEPT !.nodes[tail].next = q.freeListHead,
                   !.freeListHead = head]

\* A link at the front of the data list.
AppendChain_front(q, head, tail) ==
    [q EXCEPT !.nodes[tail].next = q.dataListHead,
              !.dataListHead = head,
              !.dataListTail = IF q.dataListTail # 0 THEN q.dataListTail ELSE tail]

\* The critical section under dataMutex of push and pushBulk: the chain
\* head..tail goes behind dataListTail.
AppendChain(q, head, tail) ==
    IF q.dataListTail # 0
    THEN [q EXCEPT !.nodes[q.dataListTail].next = head, !.dataListTail = tail]
    ELSE [q EXCEPT !.dataListHead = head, !.dataListTail = tail]

\* A detach that leaves dataListHead where it is.
DetachChain_stay(q, count) ==
    LET ch == Chain(q.nodes, q.dataListHead, count)
    IN  [q |-> q, head |-> q.dataListHead, tail |-> ch[Len(ch)], n |-> Len(ch)]

\* The critical section under dataMutex of pop (count = 1) and popBulk: up
\* to count nodes leave the front of the data list.
DetachChain(q, count) ==
    LET ch == Chain(q.nodes, q.dataListHead, count)
        tail == ch[Len(ch)]
        rest == q.nodes[tail].next
    IN  [q |-> [q EXCEPT !.dataListHead = rest,
                         !.dataListTail = IF rest # 0 THEN q.dataListTail ELSE 0],
         head |-> q.dataListHead, tail |-> tail, n |-> Len(ch)]

\* BlockQueue::push / wait_push, first critical section: a node off the free
\* list, or false.
BlockQueue_push_alloc(p) ==
    /\ bq.kind = "BlockQueue"
    /\ bqProd[p].pc = "idle"
    /\ bqProd[p].sent < MaxPush
    /\ LET a == allocateNodeUnsafe(bq)
       IN  /\ bq' = a.q
           /\ bqProd' = IF a.node = 0 THEN bqProd
                        ELSE [bqProd EXCEPT ![p].pc = "link", ![p].head = a.node,
                                            ![p].count = 1]
    /\ UNCHANGED <<bqCons, bqOut>>
    /\ UNCHANGED notBqVars

\* BlockQueue::push: the element is constructed in the node, and the node is
\* linked behind dataListTail.
BlockQueue_push_link(p) ==
    /\ bqProd[p].pc = "link"
    /\ LET node == bqProd[p].head
           q1 == [bq EXCEPT !.nodes[node].data = Elem(p, bqProd[p].sent + 1),
                            !.nodes[node].next = 0]
       IN  bq' = AppendChain(q1, node, node)
    /\ bqProd' = [bqProd EXCEPT ![p] = [NoProd EXCEPT !.sent = bqProd[p].sent + 1]]
    /\ UNCHANGED <<bqCons, bqOut>>
    /\ UNCHANGED notBqVars

\* BlockQueue::pushBulk / wait_pushBulk, first critical section: up to count
\* nodes off the free list, or 0.
BlockQueue_pushBulk_alloc(p, count) ==
    /\ bq.kind = "BlockQueue"
    /\ bqProd[p].pc = "idle"
    /\ count <= MaxPush - bqProd[p].sent
    /\ LET a == allocateNodesUnsafe(bq, count)
       IN  /\ bq' = a.q
           /\ bqProd' = IF a.node = 0 THEN bqProd
                        ELSE [bqProd EXCEPT ![p].pc = "linkBulk", ![p].head = a.node,
                                            ![p].count = count]
    /\ UNCHANGED <<bqCons, bqOut>>
    /\ UNCHANGED notBqVars

\* BlockQueue::pushBulk: elements[0..actualCount) are constructed along the
\* chain, and the chain is linked behind dataListTail.
BlockQueue_pushBulk_link(p) ==
    /\ bqProd[p].pc = "linkBulk"
    /\ LET ch == Chain(bq.nodes, bqProd[p].head, bqProd[p].count)
           q1 == [bq EXCEPT !.nodes =
                     [n \in QNodes |->
                         IF \E i \in 1..Len(ch) : ch[i] = n
                         THEN [bq.nodes[n] EXCEPT !.data =
                                  Elem(p, bqProd[p].sent
                                          + (CHOOSE i \in 1..Len(ch) : ch[i] = n))]
                         ELSE bq.nodes[n]]]
       IN  /\ bq' = AppendChain(q1, ch[1], ch[Len(ch)])
           /\ bqProd' = [bqProd EXCEPT ![p] =
                            [NoProd EXCEPT !.sent = bqProd[p].sent + Len(ch)]]
    /\ UNCHANGED <<bqCons, bqOut>>
    /\ UNCHANGED notBqVars

\* BlockQueue::pop / wait_pop and popBulk / wait_popBulk, first critical
\* section: the front nodes leave the data list, or false / 0.
BlockQueue_pop_detach(c, count) ==
    /\ bq.kind = "BlockQueue"
    /\ bqCons[c].pc = "idle"
    /\ IF bq.dataListHead = 0
       THEN UNCHANGED <<bq, bqCons, bqOut>>
       ELSE LET d == DetachChain(bq, count)
            IN  /\ bq' = d.q
                /\ bqCons' = [bqCons EXCEPT ![c].pc = "recycle", ![c].head = d.head,
                                            ![c].tail = d.tail, ![c].n = d.n]
                /\ bqOut' = bqOut \o ChainData(bq.nodes, Chain(bq.nodes, d.head, d.n))
    /\ UNCHANGED bqProd
    /\ UNCHANGED notBqVars

\* BlockQueue::pop and popBulk: the elements are moved out along the chain
\* and destroyed, and the nodes go back to the free list.
BlockQueue_pop_recycle(c) ==
    /\ bqCons[c].pc = "recycle"
    /\ LET ch == Chain(bq.nodes, bqCons[c].head, bqCons[c].n)
           q1 == [bq EXCEPT !.nodes =
                     [n \in QNodes |->
                         IF \E i \in 1..Len(ch) : ch[i] = n
                         THEN [bq.nodes[n] EXCEPT !.data = 0]
                         ELSE bq.nodes[n]]]
       IN  /\ bq' = recycleNodesUnsafe(q1, bqCons[c].head, bqCons[c].tail)
           /\ bqCons' = [bqCons EXCEPT ![c] =
                            [NoCons EXCEPT !.got = bqCons[c].got \o ChainData(bq.nodes, ch)]]
    /\ UNCHANGED <<bqProd, bqOut>>
    /\ UNCHANGED notBqVars

\* TPBlockQueue::push and pushBulk (push: count = 1), under dataMutex.
TPBlockQueue_pushBulk(p, count) ==
    /\ bq.kind = "TPBlockQueue"
    /\ bqProd[p].pc = "idle"
    /\ count <= MaxPush - bqProd[p].sent
    /\ LET toPush == Min(count, QCap - bq.size)
           ch == Chain(bq.nodes, bq.dataListTail, toPush)
       IN  /\ bq' = [bq EXCEPT
                        !.nodes = [n \in QNodes |->
                                      IF \E i \in 1..Len(ch) : ch[i] = n
                                      THEN [bq.nodes[n] EXCEPT !.data =
                                               Elem(p, bqProd[p].sent
                                                       + (CHOOSE i \in 1..Len(ch) : ch[i] = n))]
                                      ELSE bq.nodes[n]],
                        !.dataListTail = IF toPush = 0 THEN bq.dataListTail
                                         ELSE bq.nodes[ch[Len(ch)]].next,
                        !.size = bq.size + toPush]
           /\ bqProd' = [bqProd EXCEPT ![p].sent = bqProd[p].sent + toPush]
    /\ UNCHANGED <<bqCons, bqOut>>
    /\ UNCHANGED notBqVars

\* TPBlockQueue::pop / wait_pop and popBulk / wait_popBulk (pop: count = 1),
\* under dataMutex.
TPBlockQueue_popBulk(c, count) ==
    /\ bq.kind = "TPBlockQueue"
    /\ bqCons[c].pc = "idle"
    /\ LET toPop == Min(count, bq.size)
           ch == Chain(bq.nodes, bq.dataListHead, toPop)
       IN  /\ bq' = [bq EXCEPT
                        !.nodes = [n \in QNodes |->
                                      IF \E i \in 1..Len(ch) : ch[i] = n
                                      THEN [bq.nodes[n] EXCEPT !.data = 0]
                                      ELSE bq.nodes[n]],
                        !.dataListHead = IF toPop = 0 THEN bq.dataListHead
                                         ELSE bq.nodes[ch[Len(ch)]].next,
                        !.size = bq.size - toPop]
           /\ bqCons' = [bqCons EXCEPT ![c].got = bqCons[c].got \o ChainData(bq.nodes, ch)]
           /\ bqOut' = bqOut \o ChainData(bq.nodes, ch)
    /\ UNCHANGED bqProd
    /\ UNCHANGED notBqVars

NextBq ==
    \/ \E p \in Producers : BlockQueue_push_alloc(p)
    \/ \E p \in Producers : BlockQueue_push_link(p)
    \/ \E p \in Producers, count \in 1..MaxPush : BlockQueue_pushBulk_alloc(p, count)
    \/ \E p \in Producers : BlockQueue_pushBulk_link(p)
    \/ \E c \in Consumers, count \in 1..MaxPush : BlockQueue_pop_detach(c, count)
    \/ \E c \in Consumers : BlockQueue_pop_recycle(c)
    \/ \E p \in Producers, count \in 1..MaxPush : TPBlockQueue_pushBulk(p, count)
    \/ \E c \in Consumers, count \in 1..MaxPush : TPBlockQueue_popBulk(c, count)

(***************************************************************************)
(* UDP task staging: SockTaskUdp, UtilTaskUdp_Single, UtilTaskUdp_Multipe  *)
(*                                                                         *)
(* A datagram's pool buffer is named by a number; data = 0 is nullptr.     *)
(* funcFree returns the buffer to the pool; funcRecv is the user's         *)
(* callback, after which the buffer goes back to the pool: the task gives  *)
(* up the pointer in execute().  freed counts the returns of each buffer.  *)
(***************************************************************************)

\* Largest THREADPOOL_BATCH_SIZE_SUBMIT of the UDP configurations.
MaxUdpBatch == 3
\* THREADPOOL_QUEUE_LENGTH of the worker queue.
UdpQueueLen == 3
\* Datagrams received in one behaviour.
MaxDatagrams == 5

Buffers == 1..MaxDatagrams

NullTask == [data |-> 0]

\* UtilTaskUdp::init: tasks = new SockTaskUdp[batch], each with data = nullptr.
\* Config: 0 < THREADPOOL_BATCH_SIZE_SUBMIT <= THREADPOOL_QUEUE_LENGTH.
InitUdp ==
    \E batch \in 1..Min(MaxUdpBatch, UdpQueueLen) :
        udp = [batch |-> batch,
               tasks |-> [i \in 0..(batch - 1) |-> NullTask],
               back |-> 0, front |-> 0, size |-> 0,
               queue |-> <<>>,
               pc |-> "recv",
               next |-> 1,
               freed |-> [d \in Buffers |-> 0],
               dropped |-> {},
               stale |-> {}]

IdleUdp ==
    udp = [batch |-> 0, tasks |-> <<>>, back |-> 0, front |-> 0, size |-> 0,
           queue |-> <<>>, pc |-> "none", next |-> 1, freed |-> <<>>,
           dropped |-> {}, stale |-> {}]

IdleRest == IdleCalc /\ IdleBq /\ IdleUdp

\* funcFree(data)
funcFree(u, d) == [u EXCEPT !.freed[d] = Min(MaxCount, @ + 1)]

\* SockTaskUdp::~SockTaskUdp on the staged task at idx: if (data)
\* funcFree(data).  The pointer stays in the destroyed object.
SockTaskUdp_destroy(u, idx) ==
    IF u.tasks[idx].data # 0
    THEN [funcFree(u, u.tasks[idx].data) EXCEPT
             !.dropped = @ \cup {u.tasks[idx].data}]
    ELSE u

\* The staged tasks at back + from .. back + to - 1 are destroyed.
RECURSIVE DestroyRange(_, _, _)
DestroyRange(u, from, to) ==
    IF from >= to THEN u
    ELSE DestroyRange(SockTaskUdp_destroy(u, (u.back + from) % u.batch), from + 1, to)

\* The staged tasks at back .. back + k - 1 are moved into nodes of the
\* worker queue; a moved-from task has data = nullptr.  stale records the
\* buffers that had been returned to the pool when their task was queued.
RECURSIVE Submit(_, _)
Submit(u, k) ==
    IF k = 0 THEN u
    ELSE LET v == Submit(u, k - 1)
             idx == (u.back + k - 1) % u.batch
             d == v.tasks[idx].data
         IN  [v EXCEPT !.queue = Append(@, [data |-> d]),
                       !.tasks[idx].data = 0,
                       !.stale = IF d # 0 /\ v.freed[d] > 0 THEN @ \cup {d} ELSE @]

\* UtilTaskUdp_Multipe::commit, one invocation: up to the end of the array,
\* append_bulk (or append for one task) takes as many tasks as the queue
\* has free nodes; the tasks it did not take are destroyed; back and size
\* move by the number submitted; with size > 0 commit() calls itself.
UtilTaskUdp_Multipe_commit(u) ==
    LET distance == u.batch - u.back
        num == IF distance > u.size THEN u.size ELSE distance
        submitted == Min(num, UdpQueueLen - Len(u.queue))
        u1 == Submit(u, submitted)
        u2 == IF submitted < num THEN DestroyRange(u1, submitted, num) ELSE u1
        u3 == [u2 EXCEPT !.back = (u.back + submitted) % u.batch,
                         !.size = u.size - submitted]
    IN  IF u.size = 0 THEN [u EXCEPT !.pc = "recv"]
        ELSE [u3 EXCEPT !.pc = IF u3.size > 0 THEN "commit" ELSE "recv"]

\* UtilTaskUdp::append for a datagram copied into pool buffer udp.next.
\* Single: a local task is pushed, and destroyed with its buffer when the
\* push fails.  Multipe: the task is constructed at tasks[front]; a full
\* staging buffer is committed.
UtilTaskUdp_append ==
    /\ udp.pc = "recv"
    /\ udp.next <= MaxDatagrams
    /\ LET d == udp.next
           u0 == [udp EXCEPT !.next = d + 1]
       IN  IF udp.batch = 1
           THEN udp' = IF Len(udp.queue) < UdpQueueLen
                       THEN [u0 EXCEPT !.queue = Append(@, [data |-> d])]
                       ELSE [funcFree(u0, d) EXCEPT !.dropped = @ \cup {d}]
           ELSE LET u1 == [u0 EXCEPT !.tasks[udp.front].data = d,
                                     !.front = (udp.front + 1) % udp.batch,
                                     !.size = udp.size + 1]
                IN  udp' = IF u1.size = udp.batch
                           THEN [u1 EXCEPT !.pc = "commit"]
                           ELSE u1
    /\ UNCHANGED notUdpVars

\* UtilTaskUdp::commit: 10 ms after the last commit the staged tasks are
\* committed.
UtilTaskUdp_commit ==
    /\ udp.pc = "recv"
    /\ udp.batch # 1
    /\ udp.size > 0
    /\ udp' = [udp EXCEPT !.pc = "commit"]
    /\ UNCHANGED notUdpVars

\* One invocation of UtilTaskUdp_Multipe::commit.
UdpCommitStep ==
    /\ udp.pc = "commit"
    /\ udp' = UtilTaskUdp_Multipe_commit(udp)
    /\ UNCHANGED notUdpVars

\* A worker pops a task and runs SockTaskUdp::execute: the callback gets the
\* buffer, which then goes back to the pool; data = nullptr, and the
\* destructor of the popped task has nothing to free.
UdpWorker ==
    /\ udp.queue # <<>>
    /\ LET d == Head(udp.queue).data
           u1 == [udp EXCEPT !.queue = Tail(@)]
       IN  udp' = IF d # 0 THEN funcFree(u1, d) ELSE u1
    /\ UNCHANGED notUdpVars

NextUdp ==
    \/ UtilTaskUdp_append
    \/ UtilTaskUdp_commit
    \/ UdpCommitStep
    \/ UdpWorker

InitSpecRing == IdleRest /\ IdleTbl /\ IdlePool /\ IdleSetup /\ IdleTcp /\ IdleCtl /\ IdlePass /\ InitRing

SpecRing == InitSpecRing /\ [][NextRing]_vars

SpecRingOps == InitSpecRing /\ [][NextRingOps]_vars

InitSpecPool == IdleRest /\ IdleTbl /\ IdleRing /\ IdleSetup /\ IdleTcp /\ IdleCtl /\ IdlePass /\ InitPool

SpecPool == InitSpecPool /\ [][NextPool]_vars

InitSpecSetup == IdleRest /\ IdleTbl /\ IdleRing /\ IdlePool /\ IdleTcp /\ IdleCtl /\ IdlePass /\ InitSetup

SpecSetup == InitSpecSetup /\ [][NextSetup]_vars

InitSpecTcp == IdleRest /\ IdleTbl /\ IdleRing /\ IdlePool /\ IdleSetup /\ IdleCtl /\ IdlePass /\ InitTcp

InitSpecCtl == IdleRest /\ IdleTbl /\ IdleRing /\ IdlePool /\ IdleSetup /\ IdleTcp /\ IdlePass /\ InitCtl

SpecCtl == InitSpecCtl /\ [][NextCtl]_vars

InitSpecPass ==
    IdleRest /\ IdleTbl /\ IdleRing /\ IdlePool /\ IdleSetup /\ IdleCtl /\ InitTcpWith(PassConfigs) /\ InitPass

SpecPass == InitSpecPass /\ [][NextPass]_vars

SpecTcp == InitSpecTcp /\ [][NextTcp]_vars

InitSpecTbl ==
    IdleRest /\ IdleRing /\ IdlePool /\ IdleSetup /\ IdleTcp /\ IdleCtl /\ IdlePass /\ InitTbl

SpecTbl == InitSpecTbl /\ [][NextTbl]_vars

InitSpecMark ==
    IdleRest /\ IdleTbl /\ IdleRing /\ IdlePool /\ IdleSetup /\ IdleCtl /\ InitTcpWith(MarkConfigs) /\ InitMark

SpecMark == InitSpecMark /\ [][NextPass]_vars

InitSpecBq ==
    IdleUdp /\ IdleCalc /\ IdleTbl /\ IdleRing /\ IdlePool /\ IdleSetup /\ IdleTcp /\ IdleCtl /\ IdlePass /\ InitBq

SpecBq == InitSpecBq /\ [][NextBq]_vars

InitSpecUdp ==
    IdleBq /\ IdleCalc /\ IdleTbl /\ IdleRing /\ IdlePool /\ IdleSetup /\ IdleTcp /\ IdleCtl /\ IdlePass /\ InitUdp

SpecUdp == InitSpecUdp /\ [][NextUdp]_vars

InitSpecCalc ==
    IdleUdp /\ IdleBq /\ IdleTbl /\ IdleRing /\ IdlePool /\ IdleSetup /\ IdleTcp /\ IdleCtl /\ IdlePass /\ InitCalc

SpecCalc == InitSpecCalc /\ [][NextCalc]_vars

\* The steps of each thread.  The I/O loop returns from epoll_wait by itself
\* only for the exit eventfd; readiness of a connection is up to its peer.
AcceptorStep ==
    \/ \E ret \in {"eintr", "error", "timeout", "ready"}, tick \in BOOLEAN,
          acc \in AcceptOutcomes, staleFd \in BOOLEAN :
           MainEventLoopIter(ret, tick, acc, staleFd)
    \/ MainEventLoopExit
    \/ StopWaitStore
    \/ StopWaitNotify
    \/ PoolJoinRelease
    \/ ExitIOWrite
    \/ ExitIOJoin

WorkerStep ==
    \/ WorkerPop
    \/ WorkerWaitPop
    \/ WorkerBlock
    \/ \E rs \in 0..tcpConfig.rcap, ws \in 0..tcpConfig.wcap,
          fin \in {"close", "enable"}, mask \in Masks, ok \in Outcomes :
           WorkerCallback(rs, ws, fin, mask, ok)
    \/ WorkerEnableDone

IOStep ==
    \/ exitfd /\ IOEpollWait({}, <<>>)
    \/ IOExit
    \/ \E e \in ioEvents : IOHup(e)
    \/ \E e \in ioEvents : \E ok \in Outcomes, rr \in RaceReads(e.c),
          n \in 0..tcpConfig.rcap, rdok \in Outcomes, uaf \in UafOutcomes :
           IORead(e, Inp(ok, rr, n, rdok, 0, TRUE, uaf))
    \/ \E e \in ioEvents : \E ok \in Outcomes, rr \in RaceReads(e.c),
          drain \in 0..tcpConfig.wcap, wrok \in Outcomes, uaf \in UafOutcomes :
           IOWrite(e, Inp(ok, rr, 0, TRUE, drain, wrok, uaf))
    \/ \E ok \in Outcomes, uaf \in UafOutcomes :
           IOReset(Inp(ok, NoRace, 0, TRUE, 0, TRUE, uaf))

InitSpecTcpFair == InitSpecTcp /\ tcpConfig.name = "writeonly"

\* The reactor with one client, every thread scheduled fairly: a thread that
\* can take a step eventually takes one (callbacks terminate).
SpecTcpFair ==
    /\ InitSpecTcpFair
    /\ [][NextTcp]_vars
    /\ WF_vars(AcceptorStep)
    /\ WF_vars(WorkerStep)
    /\ WF_vars(IOStep)

(***************************************************************************)
(* Claims about the ring buffer                                            *)
(***************************************************************************)

\* C9: for any byte string S and any interleaving of write and read calls of
\* arbitrary chunk sizes, the bytes read() returned so far followed by the
\* bytes still held in the ring are exactly the bytes write() accepted, in
\* order; so once S is written and the ring is drained, the concatenated
\* output equals S.
C9_RingRoundTrip ==
    /\ rout \o SPBuffer_peek(ring, bsize) = rsent
    /\ (rsrc = <<>> /\ ring.size = 0) => rout = rsent

\* C9 witness: part of S was read back while the live bytes wrap around the
\* end of the backing buffer, and all of S has been written.
C9_Witness ==
    /\ rsrc = <<>>
    /\ Len(rout) > 0
    /\ ring.front > 0
    /\ ring.back + ring.size > bsize

\* C31: in every reachable ring state in which the live byte count is 0,
\* both the head and the tail index are 0, after any sequence of write,
\* read, peek, commitRead and commitWrite operations.
C31_EmptyMeansReset == ring.size = 0 => ring.front = 0 /\ ring.back = 0

\* The span of a drained ring is the whole backing buffer.
C31_EmptyFullSpan == ring.size = 0 => SPBuffer_distanceWrite(ring) = bsize

\* The offsets of the backing buffer that hold unread bytes.
LiveOffsets(r) == {(r.back + i) % bsize : i \in 0..(r.size - 1)}

\* C35: the linear write span never exceeds the free space and never extends
\* past the end of the backing buffer or over unread bytes; the linear read
\* span never exceeds the live byte count or extends past the end of the
\* backing buffer; whenever free space (live data) is non-zero the
\* corresponding span is non-zero.
C35_LinearSpans ==
    LET dw == SPBuffer_distanceWrite(ring)
        dr == SPBuffer_distanceRead(ring)
    IN  /\ dw <= bytesWrite(ring)
        /\ ring.front + dw <= bsize
        /\ \A i \in 0..(dw - 1) : (ring.front + i) \notin LiveOffsets(ring)
        /\ dr <= bytesRead(ring)
        /\ ring.back + dr <= bsize
        /\ bytesWrite(ring) > 0 => dw > 0
        /\ bytesRead(ring) > 0 => dr > 0

\* C35 witness: after commits, free space and live data both wrap, so each
\* span is cut short by the end of the backing buffer.
C35_Witness ==
    /\ rsent # <<>>
    /\ SPBuffer_distanceRead(ring) < bytesRead(ring)
    /\ ring.front > 0

\* The write span cut short: less than the free space.
C35_WitnessWrite ==
    /\ rout # <<>>
    /\ SPBuffer_distanceWrite(ring) < bytesWrite(ring)

\* C40: the live byte count never exceeds the capacity and the tail index
\* equals (head index + live count) mod capacity, after any sequence of ring
\* operations whose commit lengths stay within the span advertised.
C40_IndexArithmetic ==
    /\ ring.size >= 0
    /\ ring.size <= bsize
    /\ ring.front = (ring.back + ring.size) % bsize

\* C40 witness: the ring is full with both indices in the middle of the
\* backing buffer, after commitRead and commitWrite calls.
C40_Witness ==
    /\ ring.size = bsize
    /\ ring.back > 0
    /\ rout # <<>>

(***************************************************************************)
(* Claims about the buffer pool                                            *)
(***************************************************************************)

RECURSIVE SumSeq(_)
SumSeq(q) == IF q = <<>> THEN 0 ELSE Head(q) + SumSeq(Tail(q))

RECURSIVE SumOver(_, _)
SumOver(f, D) == IF D = {} THEN 0
                 ELSE LET x == CHOOSE y \in D : TRUE IN f[x] + SumOver(f, D \ {x})

FreeListTotal == SumOver([t \in DOMAIN pfree |-> Len(pfree[t])], DOMAIN pfree)

LiveSlabBuffers ==
    SumSeq([i \in DOMAIN pslabs |->
              IF pslabs[i].frees = 0
              THEN pslabs[i].num * Cardinality(PoolTypes(pkind)) ELSE 0])

LiveSlabRefs ==
    SumSeq([i \in DOMAIN pslabs |-> IF pslabs[i].frees = 0 THEN pslabs[i].ref ELSE 0])

\* C10 as stated: buffers on the free lists plus buffers checked out equal the
\* sum of the buffer counts of all slabs that have not been freed.
C10_ConservationByBufferCount == FreeListTotal + Cardinality(pout) = LiveSlabBuffers

\* C10 as amended: buffers on the free lists plus buffers checked out equal the
\* sum of the refcounts of all slabs that have not been freed (a buffer dropped
\* on return leaves the free list and the refcount, not the slab's size).
C10_ConservationByRefcount == FreeListTotal + Cardinality(pout) = LiveSlabRefs

\* C10 witness: a buffer was returned and dropped from a slab that is still
\* allocated, while another buffer is checked out.
C10_Witness ==
    /\ plast.op = "free"
    /\ pout # {}
    /\ \E i \in DOMAIN pslabs :
          /\ pslabs[i].frees = 0
          /\ pslabs[i].ref < pslabs[i].num * Cardinality(PoolTypes(pkind))

\* The buffers of slab s on the free lists, and those checked out.
OnFreeList(s) ==
    SumOver([t \in DOMAIN pfree |->
                Cardinality({i \in 1..Len(pfree[t]) : pfree[t][i].slab = s})],
            DOMAIN pfree)

CheckedOut(s) == Cardinality({b \in pout : b.slab = s})

SlabSize(s) == pslabs[s].num * Cardinality(PoolTypes(pkind))

\* C29 as stated: for every slab that has not been freed, its refcount
\* equals the number of its buffers that are not on the free list, after any
\* sequence of slab allocations, GetBuffer calls and FreeBuffer calls.
C29_RefcountNotOnFreeList ==
    \A s \in DOMAIN pslabs :
        pslabs[s].frees = 0 => pslabs[s].ref = SlabSize(s) - OnFreeList(s)

\* C29 as amended: for every slab that has not been freed, its refcount
\* equals the number of its buffers that are on a free list or checked out
\* (every buffer of the slab that FreeBuffer has not dropped).
C29_RefcountNotDropped ==
    \A s \in DOMAIN pslabs :
        pslabs[s].frees = 0 => pslabs[s].ref = OnFreeList(s) + CheckedOut(s)

\* C29 witness: a slab that is still allocated has a buffer on a free list,
\* a buffer checked out and a buffer that was dropped on return.
C29_Witness ==
    \E s \in DOMAIN pslabs :
        /\ pslabs[s].frees = 0
        /\ OnFreeList(s) > 0
        /\ CheckedOut(s) > 0
        /\ pslabs[s].ref < SlabSize(s)

\* C30: a slab is freed only when none of its buffers is checked out and
\* none is on a free list, and it is freed at most once: no buffer returned
\* by GetBuffer and no buffer on a free list belongs to a freed slab.
C30_FreedSlabHasNoBuffers ==
    \A s \in DOMAIN pslabs :
        /\ pslabs[s].frees <= 1
        /\ pslabs[s].frees = 1 => OnFreeList(s) = 0 /\ CheckedOut(s) = 0
        /\ (plast.op = "get" /\ plast.buf # NullBuf /\ plast.buf.slab = s)
              => pslabs[s].frees = 0

\* C30 witness: FreeBuffer has freed a slab while the pool still holds
\* buffers of another slab.
C30_Witness ==
    /\ plast.op = "free"
    /\ pslabs[plast.buf.slab].frees = 1
    /\ \E s \in DOMAIN pslabs : pslabs[s].frees = 0 /\ OnFreeList(s) > 0

(***************************************************************************)
(* Claims about socket set-up                                              *)
(***************************************************************************)

\* C7: Listen and Bind return false whenever creating, configuring or
\* binding any of their sockets fails, and return true only when every
\* socket they are meant to open is bound; after a true return from UDP
\* Bind the socket set is non-empty.
C7_SetupReportsFailure ==
    /\ lastCall.failSock # 0 => ~lastCall.ret
    /\ (lastCall.op = "Listen" /\ lastCall.ret) => listenfd \in boundFds
    /\ (lastCall.op = "Bind" /\ lastCall.ret) =>
          /\ fds # <<>>
          /\ Len(fds) = lastCall.hardware
          /\ \A i \in 1..Len(fds) : fds[i] \in boundFds

\* C11: after any sequence of acquisitions and releases in which every
\* checked-out buffer has been returned, reset() frees every slab that was
\* still allocated exactly once and leaves the free lists empty: no slab is
\* leaked and none is freed twice.
C11_ResetFreesAll ==
    plast.op = "reset" =>
        /\ \A s \in 1..Len(pslabs) : pslabs[s].frees = 1 /\ pslabs[s].ref = 0
        /\ \A t \in PoolTypes(pkind) : pfree[t] = <<>> /\ pcount[t] = 0

\* A reset of a TCP pool that itself freed two slabs, after buffers had been
\* handed out and returned.
C11_Witness ==
    /\ plast.op = "reset"
    /\ pkind = "tcp"
    /\ plast.freed = 2

(***************************************************************************)
(* Claims about the TCP reactor                                            *)
(***************************************************************************)

\* The worker tasks naming connection c that are outstanding: staged in the
\* I/O loop's batch buffer, queued, or running their callback on the worker
\* (up to the callback's final enableEvents/close call).
Outstanding(c) ==
    Cardinality({i \in 1..utilTask.size : Staged(utilTask)[i].ctx = c})
        + Cardinality({i \in 1..Len(taskQueue) : taskQueue[i].ctx = c})
        + (IF wPc = "run" /\ wTask.ctx = c THEN 1 ELSE 0)

\* C1: at every instant and for every connection, at most one worker task
\* referencing that connection is outstanding (staged, queued or executing).
C1_AtMostOneTask == \A c \in Conns : Outstanding(c) <= 1

\* C2: once a callback was dispatched for a connection nothing more is
\* dispatched for it until that callback re-armed it: while a connection is
\* armed in its loop's readiness set, no task for it is in flight.
C2_ArmedMeansNoTask ==
    \A c \in Conns : connections[c].armed => Outstanding(c) = 0

\* C3: the close-callback is invoked at most once per connection and the
\* connection's fd is closed at most once.
C3_ClosedAtMostOnce ==
    \A c \in Conns : connections[c].closeCb <= 1 /\ connections[c].fdClose <= 1

\* C4: every accepted connection whose connect-callback ran has had its
\* close-callback invoked by the time EventLoop has returned.
C4_ClosedByReturn ==
    accPc = "returned" =>
        \A c \in Conns : connections[c].connectCb = 1 => connections[c].closeCb >= 1

\* C5: once the exit flag is set while EventLoop is running, EventLoop
\* eventually returns, with the worker and the I/O loop thread joined.
C5_ExitReturns ==
    exitSet ~> (accPc = "returned" /\ wPc = "exited" /\ ioPc = "exited")

\* C6: a failed accept does not stop the server: the acceptor leaves its
\* polling loop only after the exit flag was set (or poll itself failed).
C6_AcceptFailureKeepsRunning ==
    accPc # "loop" => (stopCause # "accept" /\ (exitSet \/ stopCause = "poll"))

\* The watermark tests of HandleRead and HandleWrite on connection c.
ReadMarkMet(c) ==
    tcpConfig.readMark = 0 \/ connections[c].rsize >= tcpConfig.readMark

WriteMarkMet(c) ==
    tcpConfig.writeMark = WriteMarkMax \/ connections[c].wsize <= tcpConfig.writeMark

\* One step in which the I/O loop handles the read or write event e.
Handles(e) ==
    /\ e \in ioEvents
    /\ e \notin ioEvents'
    /\ ioPc' = "proc"
    /\ e.ev # "hup"

\* C8: a read-callback task is staged only when the read ring holds at least
\* read_mark bytes at the check, a write-callback task only when the write
\* ring holds at most write_mark bytes; when the check fails no task is
\* staged and the connection is re-armed with its previous interest mask
\* (the mask it was armed with when the event fired).
C8_Step ==
    \A e \in ioEvents : Handles(e) =>
        /\ (e.ev \in {"in", "rdhup"} /\ Outstanding(e.c)' > Outstanding(e.c))
              => ReadMarkMet(e.c)'
        /\ (e.ev = "out" /\ Outstanding(e.c)' > Outstanding(e.c))
              => WriteMarkMet(e.c)'
        /\ (e.ev \in {"in", "rdhup"} /\ tcpConfig.rdp /\ ~ReadMarkMet(e.c)')
              => /\ Outstanding(e.c)' = Outstanding(e.c)
                 /\ (~connections[e.c].armed /\ connections[e.c].armed')
                       => connections[e.c].kmask' = e.mask
        /\ (e.ev = "out" /\ tcpConfig.wtp /\ ~WriteMarkMet(e.c)')
              => /\ Outstanding(e.c)' = Outstanding(e.c)
                 /\ (~connections[e.c].armed /\ connections[e.c].armed')
                       => connections[e.c].kmask' = e.mask

C8_WatermarkGating == [][C8_Step]_vars

\* What the system calls of one handler run can do.
HandlerInputs ==
    {Inp(ok, NoRace, n, rdok, drain, wrok, uaf) :
        ok \in BOOLEAN, n \in 0..tcpConfig.rcap, rdok \in BOOLEAN,
        drain \in 0..tcpConfig.wcap, wrok \in BOOLEAN, uaf \in BOOLEAN}

\* The step handles event e and its handler calls utilTask->append: some
\* run of HandleRead / HandleWrite that appends gives the step's result.
AppendsIn(e) ==
    \E inp \in HandlerInputs :
        LET t0 == IF e.ev = "rdhup"
                  THEN [Shared EXCEPT !.connections[e.c].peerClosed = TRUE]
                  ELSE Shared
            r == IF e.ev = "out" THEN HandleWrite(Shared, e.c, inp)
                 ELSE HandleRead(t0, e.c, inp)
            t1 == IF r.ret THEN r.t ELSE ActiveClose(r.t, e.c)
        IN  /\ r.app
            /\ connections' = t1.connections
            /\ cList' = t1.cList
            /\ taskQueue' = t1.taskQueue
            /\ utilTask' = t1.utilTask

\* C21: during shutdown the acceptor joins every I/O loop thread before it
\* stops the worker pool, so no I/O loop appends a task to a worker queue
\* after that queue has been stopped and released.
C21_Step ==
    /\ (~isStopped /\ isStopped') => ioPc = "exited"
    /\ \A e \in ioEvents : (Handles(e) /\ released) => ~AppendsIn(e)

C21_LoopsJoinedFirst == [][C21_Step]_vars

\* The consequence alone: no append into a released queue.
C21_NoAppendAfterRelease ==
    [][\A e \in ioEvents : (Handles(e) /\ released) => ~AppendsIn(e)]_vars

\* C22: the acceptor never destroys a connection record while a worker task
\* for that connection is still staged, queued or executing: every task a
\* worker runs refers to a record that is still in the connection table.
C22_TaskRecordPresent ==
    \A c \in Conns :
        (Outstanding(c) > 0 \/ (wPc = "ee" /\ wTask.ctx = c))
            => connections[c].st = "live"

\* The same without the window inside the callback's final enableEvents.
C22_OutstandingRecordPresent ==
    \A c \in Conns : Outstanding(c) > 0 => connections[c].st = "live"

\* The worker is inside wait_pop: testing the predicate under dataMutex,
\* about to block on notEmptyCond, or blocked on it.
InWaitPop == wPc \in {"waitpop", "towait", "blocked"}

\* C23: after stopWait was called on the task queue, a worker that is
\* blocked, or about to block, in wait_pop eventually returns from it (and
\* with the queue empty it returns false, which ends the worker), for every
\* interleaving of stopWait with the waiter's test of the stop flag and its
\* entry into the condition-variable wait.
C23_StoppedWaiterReturns == (isStopped /\ InWaitPop) ~> ~InWaitPop

\* The mask of the most recent enableEvents call on connection c whose
\* epoll_ctl succeeded: the one the worker is still completing, if any, else
\* the cached one.
Requested(c) ==
    IF wPc = "ee" /\ wTask.ctx = c /\ wPending.ret
    THEN wPending.mask
    ELSE connections[c].events

\* The step handles e with the callback of its kind set, and leaves the
\* connection armed: it was re-armed through renableEvents.
ReArms(e) ==
    /\ Handles(e)
    /\ IF e.ev = "out" THEN tcpConfig.wtp ELSE tcpConfig.rdp
    /\ ~connections[e.c].armed
    /\ connections[e.c].armed'

\* C25: whenever an I/O loop re-arms a connection through renableEvents, the
\* interest mask it installs is the one requested by the most recent
\* successful enableEvents call for that connection, also while the worker
\* is still completing that call.
C25_Step ==
    \A e \in ioEvents : ReArms(e) => connections[e.c].kmask' = Requested(e.c)

C25_ReArmMask == [][C25_Step]_vars

\* The step destroys the record of connection c.
Destroys(c) == connections[c].st # "erased" /\ connections[c].st' = "erased"

\* The step is one of the acceptor thread: the I/O loop and the worker stay
\* where they are.
AcceptorOnly == accPc = "loop" /\ UNCHANGED <<ioPc, ioEvents, wPc, wTask, wPending>>

\* C28: a connection record is destroyed only by the acceptor thread, and
\* only after its fd was removed from the owning loop's readiness set with
\* EPOLL_CTL_DEL, or if the fd was never added to any readiness set.
C28_Step ==
    \A c \in Conns : Destroys(c) => AcceptorOnly /\ ~connections[c].reg

C12_Step ==
    (CtlIdle /\ ctlLast'.op = "write") =>
        LET l == ctlLast' IN
        /\ l.first # "eintr" /\ l.errno # "eintr"
        /\ l.first = "all" => l.ret = l.len /\ ctl' = ctl
        /\ l.first = "one" => l.ret = 1 /\ l.ret <= l.len /\ ctl' = ctl
        /\ l.first = "eagain" => l.ret = 0 /\ ctl' = ctl
        /\ l.first = "ebadf" => l.ret = -1 /\ ctl' = ctl
        /\ l.first = "epipe" =>
               /\ l.ret = -2
               /\ ctl' = [ctl EXCEPT !.conn.peerClosed = TRUE]

C12_WriteResult == [][C12_Step]_vars

\* An interrupted write that then met EPIPE: -2 and the flag set.
C12_Witness ==
    /\ ctlLast.op = "write" /\ ctlLast.retried /\ ctlLast.first = "epipe"
    /\ ctlLast.ret = -2 /\ ctl.conn.peerClosed /\ ctlLast.len = bsize

\* C13: commitWrite() returns the number of bytes the write ring still holds
\* after the call (0 exactly when it is drained), -1 on a system error, and
\* -2 when the peer has closed (EPIPE/ECONNRESET).
C13_Step ==
    (CtlIdle /\ ctlLast'.op = "commitWrite") =>
        LET l == ctlLast' IN
        /\ l.errno \in {"none", "eagain"} =>
               /\ l.ret = bytesRead(ctl'.writeBuf)
               /\ (l.ret = 0) = (Content(ctl'.writeBuf) = <<>>)
        /\ l.errno = "ebadf" => l.ret = -1
        /\ l.errno = "epipe" => l.ret = -2

C13_CommitWriteResult == [][C13_Step]_vars

\* The part of C13 that holds: the non-negative results and -1 on any error.
C13_RemainingBytes ==
    [][(CtlIdle /\ ctlLast'.op = "commitWrite") =>
          /\ ctlLast'.errno \in {"none", "eagain"} =>
                 ctlLast'.ret = bytesRead(ctl'.writeBuf)
          /\ ctlLast'.errno \in {"ebadf", "epipe"} => ctlLast'.ret = -1]_vars

\* Bytes a call took out of the write ring and out of the read ring: what it
\* wrote to the socket.
SentFromWrite == bytesRead(ctl.writeBuf) - bytesRead(ctl'.writeBuf)

SentFromRead == bytesRead(ctl.readBuf) - bytesRead(ctl'.readBuf)

\* C14: writeBack() commits the write ring first and sends read-ring bytes
\* only after the write ring is completely drained; a non-negative result is
\* the total number of bytes the call wrote to the socket, a negative one
\* reports an error.
C14_Step ==
    (CtlIdle /\ ctlLast'.op = "writeBack") =>
        /\ SentFromRead > 0 => bytesRead(ctl'.writeBuf) = 0
        /\ ctlLast'.ret >= 0 => ctlLast'.ret = SentFromWrite + SentFromRead
        /\ (ctlLast'.ret < 0) = (ctlLast'.errno \in {"ebadf", "epipe"})

C14_WriteBackResult == [][C14_Step]_vars

\* The part of C14 that holds: the order of the two rings and the sign of the
\* result.
C14_DrainFirst ==
    [][(CtlIdle /\ ctlLast'.op = "writeBack") =>
          /\ SentFromRead > 0 => bytesRead(ctl'.writeBuf) = 0
          /\ (ctlLast'.ret < 0) = (ctlLast'.errno \in {"ebadf", "epipe"})]_vars

\* C15: moveToWriteBuffer() moves exactly min(bytes in the read ring, free
\* space in the write ring) bytes: the read ring loses its oldest bytes, the
\* write ring gains the same bytes in the same order behind what it held,
\* and the result is that count, wherever the indices of the two rings stand.
C15_Step ==
    (CtlIdle /\ ctlLast'.op = "moveToWriteBuffer") =>
        LET n == Min(bytesRead(ctl.readBuf), bytesWrite(ctl.writeBuf))
            rd == Content(ctl.readBuf)
        IN  /\ ctlLast'.ret = n
            /\ bytesRead(ctl'.readBuf) = bytesRead(ctl.readBuf) - n
            /\ bytesRead(ctl'.writeBuf) = bytesRead(ctl.writeBuf) + n
            /\ Content(ctl'.readBuf) = SubSeq(rd, n + 1, Len(rd))
            /\ Content(ctl'.writeBuf) = Content(ctl.writeBuf) \o SubSeq(rd, 1, n)
            /\ ctl'.conn = ctl.conn

C15_MoveExact == [][C15_Step]_vars

\* A move of two bytes out of a read ring whose data wraps into a write ring
\* whose free space wraps at another index, some bytes staying behind.
C15_Witness ==
    /\ ctlLast.op = "moveToWriteBuffer" /\ ctlLast.ret = 2
    /\ bytesRead(ctl.readBuf) = 1 /\ ctl.readBuf.back = 1
    /\ bytesRead(ctl.writeBuf) = bsize /\ ctl.writeBuf.front = 2

\* C16: after enableEvents(read, write) returns true the cached mask is the
\* requested one; after enableEvents or renableEvents returns false the
\* cached mask is empty; a successful renableEvents leaves it unchanged.
C16_Step ==
    /\ (CtlIdle /\ ctlLast'.op = "enableEvents") =>
           ctl'.conn.events = IF ctlLast'.ret = 1 THEN ctlLast'.mask ELSE {}
    /\ (CtlIdle /\ ctlLast'.op = "renableEvents") =>
           ctl'.conn.events = IF ctlLast'.ret = 1 THEN ctl.conn.events ELSE {}

C16_CachedMask == [][C16_Step]_vars

\* A failed enableEvents(true, true): the cached mask is empty afterwards.
C16_Witness ==
    /\ ctlLast.op = "enableEvents" /\ ctlLast.ret = 0
    /\ ctlLast.mask = {"r", "w"} /\ ctl.conn.events = {}

(***************************************************************************)
(* Claims about one pass of the I/O loop                                   *)
(***************************************************************************)

\* The step handles a read event / a write event of the pass.
ReadStep == passPend' # passPend /\ passLast'.op = "read"

WriteStep == passPend' # passPend /\ passLast'.op = "write"

\* recv failed while the step drained the socket of connection c.
DrainFailed(c) ==
    ~passLast'.rdok /\ pass.connections[c].rsize # tcpConfig.rcap

\* The step put connection c on the close list.
ClosedBy(c) == Len(pass'.cList) > Len(pass.cList)

\* C17: when the peer half-closes (EPOLLRDHUP) while bytes it sent are
\* unread, peer_closed is latched and never cleared, the read callback is
\* dispatched with those bytes available before a close is scheduled, and
\* the I/O loop schedules a close on a read event only when the drain failed
\* or when peer_closed is set and the read ring is empty after the drain.
C17_Step ==
    /\ \A c \in Conns :
           pass.connections[c].peerClosed => pass'.connections[c].peerClosed
    /\ (ReadStep /\ tcpConfig.rdp) =>
           LET c == passLast'.c
               k == pass'.connections[c]
           IN  /\ passLast'.ev = "rdhup" => k.peerClosed
               /\ (passLast'.ev = "rdhup" /\ ~DrainFailed(c) /\ k.rsize > 0) =>
                      passLast'.app /\ ~ClosedBy(c)
               /\ ClosedBy(c) => DrainFailed(c) \/ (k.peerClosed /\ k.rsize = 0)

C17_HalfClose == [][C17_Step]_vars

\* What does hold of a read event with a read callback registered: the
\* latch; a dispatch whenever the unread bytes meet the read watermark; a
\* close only after a failed drain, at end of stream, or after a failed
\* epoll_ctl.
C17_WithinWatermark ==
    [][/\ \A c \in Conns :
             pass.connections[c].peerClosed => pass'.connections[c].peerClosed
       /\ (ReadStep /\ tcpConfig.rdp) =>
             LET c == passLast'.c
                 k == pass'.connections[c]
             IN  /\ passLast'.ev = "rdhup" => k.peerClosed
                 /\ (/\ passLast'.ev = "rdhup" /\ ~DrainFailed(c) /\ k.rsize > 0
                     /\ k.rsize >= tcpConfig.readMark) =>
                        passLast'.app /\ (ClosedBy(c) => ~passLast'.ok)
                 /\ ClosedBy(c) =>
                        \/ DrainFailed(c)
                        \/ k.peerClosed /\ k.rsize = 0
                        \/ ~passLast'.ok]_vars

\* The half-close that is never delivered: bytes below the read watermark.
C17_Starved ==
    [][(ReadStep /\ tcpConfig.rdp /\ passLast'.ev = "rdhup" /\ passLast'.ok
          /\ ~DrainFailed(passLast'.c)
          /\ pass'.connections[passLast'.c].rsize > 0) =>
            passLast'.app]_vars

\* Connection c is on the close list.
OnCloseList(c) == \E i \in 1..Len(pass.cList) : pass.cList[i] = c

\* C18: when reset() at the end of a pass has returned, every task appended
\* during the pass was either enqueued to the worker queue or its connection
\* was re-armed with its last interest mask: not both and not neither, in
\* single and in batched mode, with the failure latch set or not.  (A
\* connection whose epoll_ctl failed is on the close list and left out.)
C18_EnqueuedOrRearmed ==
    passPc = "done" =>
        \A c \in passApp :
            LET k == pass.connections[c] IN
            ~OnCloseList(c) =>
                \/ passEnq[c] = 1 /\ ~k.armed
                \/ passEnq[c] = 0 /\ k.armed /\ k.kmask = k.events

\* "Never both", in single mode: no connection is re-armed while a task for
\* it is enqueued.
C18_NotBothSingle ==
    (passPc = "done" /\ tcpConfig.batch = 1) =>
        \A c \in passApp :
            ~OnCloseList(c) => ~(passEnq[c] >= 1 /\ pass.connections[c].armed)

\* "Never both", in batched mode.
C18_NotBothBatched ==
    (passPc = "done" /\ tcpConfig.batch > 1) =>
        \A c \in passApp :
            ~OnCloseList(c) => ~(passEnq[c] >= 1 /\ pass.connections[c].armed)

\* "Never neither", in single mode: this part holds.
C18_NotNeitherSingle ==
    (passPc = "done" /\ tcpConfig.batch = 1) =>
        \A c \in passApp :
            ~OnCloseList(c) => passEnq[c] >= 1 \/ pass.connections[c].armed

\* "Never neither", in batched mode.
C18_NotNeitherBatched ==
    (passPc = "done" /\ tcpConfig.batch > 1) =>
        \A c \in passApp :
            ~OnCloseList(c) => passEnq[c] >= 1 \/ pass.connections[c].armed

\* The tasks a flush finds staged, oldest first, when the step is a flush:
\* the staged tasks plus the appended one when an append fills the buffer,
\* the staged tasks when the step is reset().  Otherwise none.
Flushed ==
    IF (ReadStep \/ WriteStep) /\ passLast'.app
          /\ pass.utilTask.size = tcpConfig.batch - 1
    THEN Staged(pass.utilTask)
            \o <<[ctx |-> passLast'.c,
                  proc |-> IF passLast'.op = "read" THEN "r" ELSE "w"]>>
    ELSE IF passPc = "proc" /\ passPc' = "done" THEN Staged(pass.utilTask)
    ELSE <<>>

\* How many tasks the step pushed onto the worker queue.
Enqueued == Len(pass'.taskQueue) - Len(pass.taskQueue)

\* C19: when a flush of n staged tasks enqueues only the first k of them,
\* exactly the connections of the n - k tasks that were not enqueued are
\* re-armed, no enqueued task's connection is re-armed, and afterwards the
\* staging buffer is empty and the failure latch is set (until reset()
\* clears it), wherever the staged tasks lie in the circular buffer.
\* Checked for the flushes entered with the latch clear and with every
\* epoll_ctl succeeding.
C19_Step ==
    (/\ tcpConfig.batch > 1
     /\ pass.utilTask.flag
     /\ passLast'.ok
     /\ Flushed # <<>>
     /\ Enqueued < Len(Flushed)) =>
        /\ pass'.taskQueue = pass.taskQueue \o SubSeq(Flushed, 1, Enqueued)
        /\ \A i \in 1..Len(Flushed) :
               pass'.connections[Flushed[i].ctx].armed = (i > Enqueued)
        /\ pass'.utilTask.size = 0
        /\ passPc' = "proc" => ~pass'.utilTask.flag

C19_Unwrapped ==
    [][(pass.utilTask.back + Len(Flushed) <= tcpConfig.batch) => C19_Step]_vars

\* The step handles an event whose callback kind is not registered while
\* the other kind is.
Degenerate ==
    \/ ReadStep /\ ~tcpConfig.rdp /\ tcpConfig.wtp
    \/ WriteStep /\ ~tcpConfig.wtp /\ tcpConfig.rdp

\* C20: when only one callback kind is registered and an event of the other
\* kind fires, the I/O loop re-arms the connection for the registered kind
\* only, and the connection is scheduled for close if and only if that
\* re-arm fails.
C20_Step ==
    Degenerate =>
        LET c == passLast'.c
            k == pass'.connections[c]
        IN  /\ ClosedBy(c) = ~passLast'.ok
            /\ passLast'.ok =>
                   /\ k.armed
                   /\ k.kmask = IF tcpConfig.rdp THEN {"r"} ELSE {"w"}

C20_DegenerateRearm == [][C20_Step]_vars

\* What the code does instead: it closes exactly when the re-arm succeeded,
\* and leaves a connection it could not re-arm disarmed and open.
C20_Inverted ==
    [][Degenerate =>
          LET c == passLast'.c
              k == pass'.connections[c]
          IN  /\ ClosedBy(c) = passLast'.ok
              /\ ~k.armed
              /\ ~passLast'.ok => k.reg /\ k.st = "live" /\ k.events = {}]_vars

(***************************************************************************)
(* Claims about the connection table and the close list                    *)
(***************************************************************************)

\* C24: an I/O loop thread never looks up the shared connection table at
\* the same time as the acceptor thread inserts into it (on accept) or
\* erases from it (close-list drain, failed accept set-up).
C24_NoConcurrentTableAccess ==
    \A l \in DOMAIN tblIo :
        ~(tblIo[l].pc = "find" /\ tblAcc.pc \in {"emplace", "erase"})

\* The insert alone, and the erase alone.
C24_NoFindDuringEmplace ==
    \A l \in DOMAIN tblIo : ~(tblIo[l].pc = "find" /\ tblAcc.pc = "emplace")

C24_NoFindDuringErase ==
    \A l \in DOMAIN tblIo : ~(tblIo[l].pc = "find" /\ tblAcc.pc = "erase")

\* C26: while draining the close list the acceptor never reads a field of
\* a record after that record was removed from the table, and the
\* live_count it decrements for a drained connection is the one of the loop
\* the connection was assigned to.
C26_Step ==
    (tblAcc.pc = "count" /\ tblAcc'.pc = "next") =>
        /\ tblConns[tblAcc.fd].st = "present"
        /\ tblLoopInfo' = [tblLoopInfo EXCEPT ![tblConns[tblAcc.fd].info] = @ - 1]

C26_DrainReadsLiveRecord == [][C26_Step]_vars

\* The second half alone: the count decremented is the assigned loop's.
C26_RightLoopCount ==
    [][(tblAcc.pc = "count" /\ tblAcc'.pc = "next") =>
          tblLoopInfo' = [tblLoopInfo EXCEPT ![tblConns[tblAcc.fd].info] = @ - 1]]_vars

\* C27: the close-list mutex is held only while one connection is pushed or
\* while the pending list is moved out: the acceptor has released it before
\* it invokes a close-callback or closes an fd, whatever the number of
\* pending connections.
C27_ShortCriticalSections ==
    /\ tblMtx = Acceptor => tblAcc.pc \notin {"csp", "closefd", "erase", "count"}
    /\ \A l \in DOMAIN tblIo : tblMtx = l => tblIo[l].pc = "push"

\* The part that holds: above CloseListThreshold pending connections the
\* callbacks run without the lock, and a pusher holds it for its push only.
C27_MovedOutUnlocked ==
    /\ (tblAcc.moved /\ tblAcc.pc \in {"csp", "closefd", "erase", "count"})
          => tblMtx # Acceptor
    /\ \A l \in DOMAIN tblIo : tblMtx = l => tblIo[l].pc = "push"

\* C32: a newly accepted connection is registered with an I/O loop whose
\* count is minimal among all I/O loops at the moment of the choice: the
\* step that assigns the loop picks one of least count, and the step that
\* registers the connection adds it to that loop with the counts unchanged
\* since the choice.
C32_Step ==
    /\ (tblAcc.pc = "init" /\ tblAcc'.pc = "add")
           => \A k \in Loops :
                  tblLoopInfo[tblConns'[tblAcc.fd].info] <= tblLoopInfo[k]
    /\ (tblAcc.pc = "add" /\ tblAcc'.pc = "poll")
           => /\ tblConns'[tblAcc.fd].reg
              /\ \A k \in Loops :
                     tblLoopInfo[tblConns[tblAcc.fd].info] <= tblLoopInfo[k]
              /\ tblLoopInfo' = [tblLoopInfo EXCEPT ![tblConns[tblAcc.fd].info] = @ + 1]

C32_LeastLoadedLoop == [][C32_Step]_vars

\* C32 witness: a connection registered with the second loop while the
\* first one has more connections.
C32_Witness ==
    /\ tblAcc.pc = "poll"
    /\ \E f \in AcceptFds :
           /\ tblConns[f].st = "present"
           /\ tblConns[f].reg
           /\ tblConns[f].info = MaxLoops
           /\ tblLoopInfo[1] > tblLoopInfo[MaxLoops] - 1

\* The records of the table that are assigned to loop l.
AssignedTo(l) == {f \in TableFds : tblConns[f].st = "present" /\ tblConns[f].info = l}

\* C33: whenever the acceptor is between steps, each loop's count equals the
\* number of records in the table that are assigned to that loop, and it is
\* never negative.
C33_CountMatchesTable ==
    tblAcc.pc = "poll"
        => \A l \in Loops :
               /\ tblLoopInfo[l] = Cardinality(AssignedTo(l))
               /\ tblLoopInfo[l] >= 0

\* C33, the part about failed setups: while HandleConnect closes a
\* connection whose init or EPOLL_CTL_ADD failed, no count changes.
C33_FailedSetupStep ==
    (tblAcc.from = "connect" /\ tblAcc.pc \in {"init", "add", "csp", "closefd", "erase"}
        /\ tblAcc'.pc \in {"csp", "closefd", "erase", "poll"}
        /\ ~(tblAcc.pc = "add" /\ tblAcc'.pc = "poll"))
        => tblLoopInfo' = tblLoopInfo

C33_FailedSetupKeepsCounts == [][C33_FailedSetupStep]_vars

\* C36: for every hardware concurrency H >= 1 and every worker ratio r with
\* 0 < r < 1, the computed worker-thread count and I/O-thread count are both
\* at least 1; for H <= 2 both are exactly 1, and for H > 2 they sum to H.
C36_ThreadCounts ==
    (calc.pc = "done" /\ calc.hardware >= 1)
        => /\ calc.ret
           /\ calc.workerThreads >= 1
           /\ calc.ioThreads >= 1
           /\ calc.hardware <= 2 => calc.workerThreads = 1 /\ calc.ioThreads = 1
           /\ calc.hardware > 2 => calc.workerThreads + calc.ioThreads = calc.hardware

\* C36 witness: more than two hardware threads and a ratio whose rounded
\* product is 0, so that the correction made the one worker.
C36_Witness ==
    /\ calc.pc = "done"
    /\ calc.hardware > 2
    /\ 2 * calc.hardware * calc.num < RatioDen
    /\ calc.workerThreads = 1

\* The other correction: the rounded product takes every hardware thread.
C36_WitnessAllWorkers ==
    /\ calc.pc = "done"
    /\ calc.hardware > 2
    /\ 2 * calc.hardware * (RatioDen - calc.num) <= RatioDen
    /\ calc.ioThreads = 1

\* The step handles a read event of a connection whose read ring was
\* completely full when the event arrived.
FullRingReadStep ==
    /\ ReadStep
    /\ tcpConfig.rdp
    /\ pass.connections[passLast'.c].rsize = tcpConfig.rcap

\* C38: a connection whose read ring is completely full has its read
\* callback staged on the next read event, for every configured read mark;
\* it is never just re-armed, to be reported and re-armed again.
C38_FullRingStaged == [][FullRingReadStep => passLast'.app]_vars

\* What the step leaves when it does not stage the callback and epoll_ctl
\* succeeds: the ring still full and the connection armed with the mask it
\* had, so that the kernel reports it again.
C38_ReArmedAsBefore ==
    [][(FullRingReadStep /\ ~passLast'.app /\ passLast'.ok) =>
          LET k == pass'.connections[passLast'.c] IN
          /\ k.rsize = tcpConfig.rcap
          /\ k.armed
          /\ k.kmask = pass.connections[passLast'.c].events
          /\ k.events = pass.connections[passLast'.c].events
          /\ pass'.cList = pass.cList
          /\ pass'.taskQueue = pass.taskQueue
          /\ pass'.utilTask = pass.utilTask]_vars

\* With a mark no larger than READ_BSIZE the full ring is always staged.
C38_StagedWithinCapacity ==
    [][(FullRingReadStep /\ tcpConfig.readMark <= tcpConfig.rcap) =>
          passLast'.app]_vars

(***************************************************************************)
(* Claims about the task queue                                             *)
(***************************************************************************)

\* The elements on the data list, front first.
Queued ==
    IF bq.kind = "BlockQueue"
    THEN ChainData(bq.nodes, Chain(bq.nodes, bq.dataListHead, QCap + 1))
    ELSE ChainData(bq.nodes, Chain(bq.nodes, bq.dataListHead, bq.size))

\* The elements consumer c has taken off the data list and not yet handed
\* to its caller.
InFlight(c) ==
    IF bqCons[c].pc = "recycle"
    THEN ChainData(bq.nodes, Chain(bq.nodes, bqCons[c].head, bqCons[c].n))
    ELSE <<>>

\* What the consumers 1..c hold or have returned.
RECURSIVE ConsumerHeld(_)
ConsumerHeld(c) ==
    IF c = 0 THEN <<>>
    ELSE ConsumerHeld(c - 1) \o InFlight(c) \o bqCons[c].got

Holdings == Queued \o ConsumerHeld(MaxConsumers)

Occurrences(seq, e) == Cardinality({i \in 1..Len(seq) : seq[i] = e})

\* The elements whose push has returned success.
PushedElems == UNION {{Elem(p, i) : i \in 1..bqProd[p].sent} : p \in Producers}

AllElems == {Elem(p, i) : p \in Producers, i \in 1..MaxPush}

\* The elements of producer p in seq, in the order they have there.
FromProducer(seq, p) == SelectSeq(seq, LAMBDA e : ElemProducer(e) = p)

\* seq is the first elements of producer p, in the order they were pushed.
InPushOrder(seq, p) == \A i \in 1..Len(seq) : seq[i] = Elem(p, i)

\* seq holds elements of producer p in increasing order.
Increasing(seq) ==
    \A i, j \in 1..Len(seq) : i < j => ElemNumber(seq[i]) < ElemNumber(seq[j])

\* C34: the elements one producer pushed, in one bulk push or in several
\* pushes, are dequeued in the order they were pushed: they leave the data
\* list in that order, and every consumer receives those it gets in that
\* order.
C34_ProducerOrder ==
    \A p \in Producers :
        /\ InPushOrder(FromProducer(bqOut, p), p)
        /\ \A c \in Consumers : Increasing(FromProducer(bqCons[c].got, p))

\* C34 witness: every element has been dequeued from a BlockQueue, the
\* producers interleaved, and one consumer received every element of the
\* first producer.
C34_Witness ==
    /\ bq.kind = "BlockQueue"
    /\ Len(bqOut) = MaxProducers * MaxPush
    /\ ElemProducer(bqOut[1]) # ElemProducer(bqOut[2])
    /\ ElemProducer(bqOut[2]) # ElemProducer(bqOut[3])
    /\ \E c \in Consumers : Len(FromProducer(bqCons[c].got, 1)) = MaxPush

\* C39: every element whose push succeeded is on the data list, in the
\* hands of one consumer or returned by one consumer, exactly once in all;
\* nothing else is; it left the data list at most once; and the data list
\* never holds more than the capacity.
C39_ExactlyOnce ==
    /\ \A e \in AllElems :
           /\ Occurrences(Holdings, e) = IF e \in PushedElems THEN 1 ELSE 0
           /\ Occurrences(bqOut, e) <= 1
    /\ \A i \in 1..Len(Holdings) : Holdings[i] \in AllElems
    /\ Len(Queued) <= QCap

\* C39 witness: more elements than the queue has nodes went through a
\* BlockQueue and every one was returned, some by each consumer.
C39_Witness ==
    /\ bq.kind = "BlockQueue"
    /\ Queued = <<>>
    /\ \A c \in Consumers : bqCons[c].pc = "idle" /\ bqCons[c].got # <<>>
    /\ Len(Holdings) = MaxProducers * MaxPush
    /\ MaxProducers * MaxPush > QCap

\* The same through a TPBlockQueue.
C39_WitnessTP ==
    /\ bq.kind = "TPBlockQueue"
    /\ bq.size = 0
    /\ \A c \in Consumers : bqCons[c].got # <<>>
    /\ Len(Holdings) = MaxProducers * MaxPush

(***************************************************************************)
(* Claims about the UDP tasks                                              *)
(***************************************************************************)

\* The buffers of the tasks staged in the window back .. back + size - 1.
StagedBuffers ==
    {udp.tasks[(udp.back + i) % udp.batch].data : i \in 0..(udp.size - 1)} \ {0}

\* The buffers of the tasks on the worker queue.
QueuedBuffers == {udp.queue[i].data : i \in 1..Len(udp.queue)} \ {0}

\* C37: every pool buffer placed in a UDP task is returned to the pool
\* exactly once, whether a worker executed the task or the task was dropped
\* because it could not be enqueued: never twice, and once as soon as no
\* task holds it; and no task whose buffer has been released is submitted
\* to the worker queue afterwards.
C37_ReturnedExactlyOnce ==
    /\ \A d \in Buffers :
           /\ udp.freed[d] <= 1
           /\ (d < udp.next /\ d \notin StagedBuffers /\ d \notin QueuedBuffers)
                  => udp.freed[d] = 1
    /\ udp.stale = {}

\* The two halves of C37 one at a time: no buffer is returned twice; no
\* task with a released buffer is queued.
C37_NeverTwice == \A d \in Buffers : udp.freed[d] <= 1

C37_NoStaleTask == udp.stale = {}

\* What holds: in single mode, and in batched mode as long as every commit
\* found room for all of its tasks, each buffer is returned exactly once.
C37_OnceWithoutDrop ==
    (udp.batch = 1 \/ udp.dropped = {})
        => /\ \A d \in Buffers :
                  /\ udp.freed[d] <= 1
                  /\ (d < udp.next /\ d \notin StagedBuffers /\ d \notin QueuedBuffers)
                         => udp.freed[d] = 1
           /\ udp.stale = {}

====
